---- MODULE Spec2Model ----
(***************************************************************************)
(* A model of the transactional core of sourgrapesrpg/moor:                *)
(*   - the MVCC binary relation of src/src/db/relations.rs                 *)
(*     (specification Spec; SpecSnap with begin and scans; SpecBidi for a  *)
(*     relation with a secondary index),                                   *)
(*   - the tuple box / slot allocator of                                   *)
(*     src/crates/db/src/tuplebox/tuples/slotbox.rs                        *)
(*     (specifications SpecSlotBox and SpecLoad),                          *)
(*   - the opcode interpreter of src/crates/kernel/src/vm/vm_execute.rs    *)
(*     with the unwinding of src/moor-lib/src/vm/vm_unwind.rs              *)
(*     (specification SpecVM),                                             *)
(*   - the locks the calls of the tuple box take (specification            *)
(*     SpecLocks),                                                         *)
(*   - the task loop of src/src/server/scheduler.rs (specification         *)
(*     SpecSched),                                                         *)
(*   - the arithmetic and indexing opcodes with the operations of          *)
(*     src/moor-value/src/var/varops.rs (specification SpecMachine), and   *)
(*   - the world state of src/moor-lib/src/db/db_worldstate.rs             *)
(*     (specification SpecWs).                                             *)
(***************************************************************************)
EXTENDS Integers, Sequences, FiniteSets, TLC

\* ------------------------------------------------------------------ bounds
\* Number of transactions a behaviour may start.
MaxTx == 3
\* Number of successful write operations in a behaviour.
MaxWrites == 3
\* Size of the buffer pool of a SlotBox, in floor-sized pages.
VirtPages == 2
\* Number of allocate calls (tuples ever allocated) in a behaviour.
MaxAllocs == 3
\* Number of live handles of one tuple.
MaxHandles == 2
\* The tick budgets of a task: a long one and a short one.
MaxTicks == 30
FewTicks == 5
\* The largest max_stack_depth of a task.
MaxStackDepth == 3
\* Number of threads that call into one SlotBox.
MaxThreads == 2
\* Number of tasks the scheduler is given, and of calls of vm.exec() that
\* return More to one task.
MaxTasks == 2
MaxSlices == 2
\* Number of commits of one task that meet a conflict.
MaxConflicts == 2
\* Number of bits of an Int of the model (the source's Int is i64), and the
\* largest number of values on the value stack of the opcode machine.
IntBits == 8
MaxOperands == 4
\* Number of calls made on one DbTxWorldState.
MaxCalls == 4

\* The L and R column values.
Keys == {1, 2}
Vals == {1, 2}
TxIds == 1..MaxTx

\* ------------------------------------------------------------ small helpers
None == <<>>
Some(x) == <<x>>
Max(S) == CHOOSE x \in S : \A y \in S : y <= x
Min(S) == CHOOSE x \in S : \A y \in S : x <= y

RECURSIVE SortedSeq(_)
SortedSeq(S) ==
    IF S = {} THEN <<>>
    ELSE LET m == Min(S) IN <<m>> \o SortedSeq(S \ {m})

\* Remove the element at position i of a sequence (Vec::remove).
RemoveAt(s, i) == SubSeq(s, 1, i - 1) \o SubSeq(s, i + 1, Len(s))

\* ------------------------------------------------- crate::db::tx (MvccTuple)
\* EntryValue::Tombstone; EntryValue::Value(v) is the pair v = <<l, r>>.
Tombstone == <<>>

\* Tx::new(tx_id, tx_start_ts): every constructor call in the source passes
\* the same number for both.
Tx(t) == [tx_id |-> t, tx_start_ts |-> t]

\* MvccTuple::new(ts, initial): one committed version stamped ts.
MvccNew(ts, v) ==
    << [ts |-> ts, rts |-> ts, committed |-> TRUE, value |-> v] >>

\* Positions of the uncommitted version written by the transaction ts.
OwnIdx(versions, ts) ==
    {i \in 1..Len(versions) : ~versions[i].committed /\ versions[i].ts = ts}

CommittedIdx(versions) ==
    {i \in 1..Len(versions) : versions[i].committed}

\* Committed versions whose write timestamp is not after the reader's.
VisibleIdx(versions, ts) ==
    {i \in CommittedIdx(versions) : versions[i].ts <= ts}

ToOption(v) == IF v = Tombstone THEN None ELSE Some(v)

\* MvccTuple::get(ts) -> (rts, Option<V>): the reader's own uncommitted
\* version if it has one, else the last committed version with write
\* timestamp <= ts; rts is the timestamp of the version the value rests on.
MvccGet(versions, ts) ==
    IF OwnIdx(versions, ts) # {}
    THEN LET e == versions[Max(OwnIdx(versions, ts))]
         IN  <<e.rts, ToOption(e.value)>>
    ELSE IF VisibleIdx(versions, ts) # {}
    THEN LET e == versions[Max(VisibleIdx(versions, ts))]
         IN  <<e.ts, ToOption(e.value)>>
    ELSE <<0, None>>

\* MvccTuple::set(tx_id, rts, value): write (or overwrite) the transaction's
\* uncommitted version.
MvccSet(versions, tx_id, rts, v) ==
    IF OwnIdx(versions, tx_id) # {}
    THEN [versions EXCEPT ![Max(OwnIdx(versions, tx_id))] =
             [@ EXCEPT !.rts = rts, !.value = v]]
    ELSE Append(versions,
                [ts |-> tx_id, rts |-> rts, committed |-> FALSE, value |-> v])

\* MvccTuple::delete(tx_id, rts)
MvccDelete(versions, tx_id, rts) == MvccSet(versions, tx_id, rts, Tombstone)

\* MvccTuple::can_commit(ts) -> CommitCheckResult.  The transaction's version
\* can commit when nothing was committed to the tuple since the version was
\* created and the newest committed version is the one it was derived from
\* (for a version derived from nothing: the tuple is not present).
MvccCanCommit(versions, ts) ==
    IF OwnIdx(versions, ts) = {}
    THEN [kind |-> "None", position |-> 0]
    ELSE LET p == Max(OwnIdx(versions, ts))
             c == Max(CommittedIdx(versions))
             latest == versions[c]
             own == versions[p]
         IN  IF c < p /\ (latest.ts = own.rts
                          \/ (own.rts = 0 /\ latest.value = Tombstone))
             THEN [kind |-> "CanCommit", position |-> p]
             ELSE [kind |-> "Conflict", position |-> 0]

\* MvccTuple::do_commit(ts, position): the version becomes the newest
\* committed one, stamped ts.
MvccDoCommit(versions, ts, position) ==
    IF position \in OwnIdx(versions, ts)
    THEN Append(RemoveAt(versions, position),
                [versions[position] EXCEPT !.committed = TRUE, !.ts = ts])
    ELSE versions

\* MvccTuple::rollback(tx_id): destroy the transaction's versions.
MvccRollback(versions, tx_id) ==
    SelectSeq(versions, LAMBDA e : e.committed \/ e.ts # tx_id)

\* ------------------------------------------------------ Relation (relations.rs)
\* Relation::new(): no tuples, no secondary index (r_index: None).
NewRelation ==
    [values        |-> <<>>,
     l_index       |-> <<>>,
     r_index       |-> None,
     commit_sets   |-> <<>>,
     next_tuple_id |-> 0]

\* Relation::new_bidirectional(): r_index is Some(empty map).  An absent
\* map entry and an entry holding the empty set are the same to every
\* reader, so the map is a total function to sets.
NewBidirectional ==
    [NewRelation EXCEPT !.r_index = Some([v \in Vals |-> {}])]

\* if let Some(r_index) = &mut inner.r_index { r_index.entry(r) ... insert }
r_index_insert(rel, r, tuple_id) ==
    IF rel.r_index = None THEN rel
    ELSE [rel EXCEPT !.r_index[1][r] = @ \cup {tuple_id}]

\* if let Some(r_index) = &mut inner.r_index { r_index.entry(r) ... remove }
r_index_remove(rel, r, tuple_id) ==
    IF rel.r_index = None THEN rel
    ELSE [rel EXCEPT !.r_index[1][r] = @ \ {tuple_id}]

Result(rel, res) == [rel |-> rel, res |-> res]

\* RelationInner::add_to_commit_set
add_to_commit_set(rel, tx, tuple_id) ==
    IF tx.tx_id \in DOMAIN rel.commit_sets
    THEN [rel EXCEPT !.commit_sets[tx.tx_id] = Append(@, tuple_id)]
    ELSE [rel EXCEPT !.commit_sets = (tx.tx_id :> <<tuple_id>>) @@ @]

\* Relation::has_with_l
has_with_l(rel, tx, k) ==
    IF k \in DOMAIN rel.l_index
    THEN MvccGet(rel.values[rel.l_index[k]], tx.tx_start_ts)[2] # None
    ELSE FALSE

\* A variant of insert that takes the presence of the key in the primary
\* index, not the version visible to the transaction, as "exists".
insert_index_only(rel, tx, l, r) ==
    IF l \in DOMAIN rel.l_index
    THEN Result(rel, "Duplicate")
    ELSE LET tuple_id == rel.next_tuple_id
         IN  Result(add_to_commit_set(
                 r_index_insert(
                    [rel EXCEPT
                       !.next_tuple_id = @ + 1,
                       !.values = (tuple_id :>
                           MvccSet(MvccNew(tx.tx_start_ts, Tombstone),
                                   tx.tx_id, tx.tx_start_ts, <<l, r>>)) @@ @,
                       !.l_index = (l :> tuple_id) @@ @],
                    r, tuple_id),
                 tx, tuple_id), "Ok")

\* A variant of insert that records the tuple in the transaction's commit
\* set before it looks at the version visible to the transaction.
insert_marked(rel, tx, l, r) ==
    IF l \in DOMAIN rel.l_index
    THEN LET tuple_id == rel.l_index[l]
             g == MvccGet(rel.values[tuple_id], tx.tx_start_ts)
             marked == add_to_commit_set(rel, tx, tuple_id)
         IN  IF g[2] # None
             THEN Result(marked, "Duplicate")
             ELSE Result(r_index_insert(
                            [marked EXCEPT !.values[tuple_id] =
                                MvccSet(@, tx.tx_id, g[1], <<l, r>>)],
                            r, tuple_id), "Ok")
    ELSE insert_index_only(rel, tx, l, r)

\* Relation::insert
insert(rel, tx, l, r) ==
    IF l \in DOMAIN rel.l_index
    THEN LET tuple_id == rel.l_index[l]
             g == MvccGet(rel.values[tuple_id], tx.tx_start_ts)
         IN  IF g[2] # None
             THEN Result(rel, "Duplicate")
             ELSE Result(add_to_commit_set(
                     r_index_insert(
                        [rel EXCEPT !.values[tuple_id] =
                            MvccSet(@, tx.tx_id, g[1], <<l, r>>)],
                        r, tuple_id),
                     tx, tuple_id), "Ok")
    ELSE LET tuple_id == rel.next_tuple_id
         IN  Result(add_to_commit_set(
                 r_index_insert(
                    [rel EXCEPT
                       !.next_tuple_id = @ + 1,
                       !.values = (tuple_id :>
                           MvccSet(MvccNew(tx.tx_start_ts, Tombstone),
                                   tx.tx_id, tx.tx_start_ts, <<l, r>>)) @@ @,
                       !.l_index = (l :> tuple_id) @@ @],
                    r, tuple_id),
                 tx, tuple_id), "Ok")

\* A variant of remove_for_l that records the tuple in the commit set but
\* writes no tombstone.
remove_for_l_unmarked(rel, tx, l) ==
    IF l \in DOMAIN rel.l_index
    THEN LET tuple_id == rel.l_index[l]
             g == MvccGet(rel.values[tuple_id], tx.tx_start_ts)
         IN  IF g[2] = None
             THEN Result(rel, "NotFound")
             ELSE Result(r_index_remove(
                            add_to_commit_set(rel, tx, tuple_id),
                            g[2][1][2], tuple_id),
                         "Ok")
    ELSE Result(rel, "NotFound")

\* Relation::remove_for_l
remove_for_l(rel, tx, l) ==
    IF l \in DOMAIN rel.l_index
    THEN LET tuple_id == rel.l_index[l]
             g == MvccGet(rel.values[tuple_id], tx.tx_start_ts)
         IN  IF g[2] = None
             THEN Result(rel, "NotFound")
             ELSE Result(
                     r_index_remove(
                        add_to_commit_set(
                           [rel EXCEPT !.values[tuple_id] =
                                MvccDelete(@, tx.tx_id, g[1])],
                           tx, tuple_id),
                        g[2][1][2], tuple_id),
                     "Ok")
    ELSE Result(rel, "NotFound")

\* A variant of upsert that returns as soon as the removal succeeded.
upsert_remove_only(rel, tx, l, r) ==
    LET e == remove_for_l(rel, tx, l)
    IN  IF e.res = "Ok" THEN e ELSE insert(rel, tx, l, r)

\* A variant of upsert that stores the row it inserts as a new tuple.
upsert_new_tuple(rel, tx, l, r) ==
    LET e == remove_for_l(rel, tx, l)
    IN  IF e.res # "Ok" /\ e.res # "NotFound"
        THEN e
        ELSE insert([e.rel EXCEPT !.l_index =
                        [k \in DOMAIN @ \ {l} |-> @[k]]],
                    tx, l, r)

\* Relation::upsert
upsert(rel, tx, l, r) ==
    LET e == remove_for_l(rel, tx, l)
    IN  IF e.res # "Ok" /\ e.res # "NotFound"
        THEN e
        ELSE insert(e.rel, tx, l, r)

\* A variant of update_r that reads the newest version of the tuple, whoever
\* wrote it, instead of the version visible to the transaction.
update_r_newest(rel, tx, l, new_r) ==
    IF l \in DOMAIN rel.l_index
    THEN LET tuple_id == rel.l_index[l]
             vs == rel.values[tuple_id]
             g == <<vs[Len(vs)].rts, ToOption(vs[Len(vs)].value)>>
         IN  IF g[2] = None
             THEN Result(rel, "NotFound")
             ELSE Result(
                     r_index_insert(
                        r_index_remove(
                           add_to_commit_set(
                              [rel EXCEPT !.values[tuple_id] =
                                  MvccSet(@, tx.tx_id, g[1], <<l, new_r>>)],
                              tx, tuple_id),
                           g[2][1][2], tuple_id),
                        new_r, tuple_id),
                     "Ok")
    ELSE Result(rel, "NotFound")

\* Relation::update_r
update_r(rel, tx, l, new_r) ==
    IF l \in DOMAIN rel.l_index
    THEN LET tuple_id == rel.l_index[l]
             g == MvccGet(rel.values[tuple_id], tx.tx_start_ts)
         IN  IF g[2] = None
             THEN Result(rel, "NotFound")
             ELSE LET old_r == g[2][1][2]
                  IN  Result(
                         r_index_insert(
                            r_index_remove(
                               add_to_commit_set(
                                  [rel EXCEPT !.values[tuple_id] =
                                      MvccSet(@, tx.tx_id, g[1], <<l, new_r>>)],
                                  tx, tuple_id),
                               old_r, tuple_id),
                            new_r, tuple_id),
                         "Ok")
    ELSE Result(rel, "NotFound")

\* Relation::seek_for_l_eq -> Option<R>
seek_for_l_eq(rel, tx, k) ==
    IF k \in DOMAIN rel.l_index
    THEN LET g == MvccGet(rel.values[rel.l_index[k]], tx.tx_start_ts)
         IN  IF g[2] = None THEN None ELSE Some(g[2][1][2])
    ELSE None

\* Relation::update_l
update_l(rel, tx, l, new_l) ==
    LET current_r == seek_for_l_eq(rel, tx, l)
    IN  IF current_r = None
        THEN Result(rel, "NotFound")
        ELSE LET e == remove_for_l(rel, tx, l)
             IN  IF e.res # "Ok"
                 THEN e
                 ELSE insert(e.rel, tx, new_l, current_r[1])

\* A range bound: <<"Included", k>>, <<"Excluded", k>> or <<"Unbounded">>.
AboveLower(k, b) ==
    CASE b[1] = "Included" -> k >= b[2]
      [] b[1] = "Excluded" -> k > b[2]
      [] OTHER -> TRUE

BelowUpper(k, b) ==
    CASE b[1] = "Included" -> k <= b[2]
      [] b[1] = "Excluded" -> k < b[2]
      [] OTHER -> TRUE

\* BTreeMap::range on a map that is not empty panics for a range whose
\* start is above its end, and for one whose bounds are equal and both
\* Excluded.
range_panics(l_index, range) ==
    /\ DOMAIN l_index # {}
    /\ range[1][1] # "Unbounded" /\ range[2][1] # "Unbounded"
    /\ \/ range[1][2] > range[2][2]
       \/ /\ range[1][2] = range[2][2]
          /\ range[1][1] = "Excluded" /\ range[2][1] = "Excluded"

\* Relation::range_for_l_eq -> Vec<(L, R)>, in key order; "panic" when
\* l_index.range(range) panics.
range_for_l_eq(rel, tx, range) ==
    LET ks == SortedSeq({k \in DOMAIN rel.l_index :
                            /\ AboveLower(k, range[1])
                            /\ BelowUpper(k, range[2])
                            /\ seek_for_l_eq(rel, tx, k) # None})
    IN  IF range_panics(rel.l_index, range) THEN "panic"
        ELSE [i \in 1..Len(ks) |->
                 <<ks[i], seek_for_l_eq(rel, tx, ks[i])[1]>>]

\* Relation::seek_for_r_eq -> BTreeSet<L>; it panics on a relation without
\* secondary index, so it is only used on a bidirectional one.
seek_for_r_eq(rel, tx, t) ==
    {MvccGet(rel.values[id], tx.tx_start_ts)[2][1][1] :
        id \in {i \in rel.r_index[1][t] :
                   MvccGet(rel.values[i], tx.tx_start_ts)[2] # None}}

\* Relation::begin
begin(rel, tx) ==
    IF tx.tx_id \in DOMAIN rel.commit_sets
    THEN Result(rel, "Ok")
    ELSE Result([rel EXCEPT !.commit_sets = (tx.tx_id :> <<>>) @@ @], "Ok")

\* Relation::rollback
rollback(rel, tx) ==
    IF tx.tx_id \notin DOMAIN rel.commit_sets
    THEN Result(rel, "Ok")
    ELSE LET commit_set == rel.commit_sets[tx.tx_id]
             touched == {commit_set[i] : i \in 1..Len(commit_set)}
         IN  Result(
                [rel EXCEPT
                   !.commit_sets =
                       [id \in DOMAIN @ \ {tx.tx_id} |-> @[id]],
                   !.values =
                       [id \in DOMAIN @ |->
                           IF id \in touched
                           THEN MvccRollback(@[id], tx.tx_id)
                           ELSE @[id]]],
                "Ok")

\* The second loop of Relation::commit: do_commit for every (tuple, position)
\* collected by the check, in commit-set order.
RECURSIVE do_commits(_, _, _)
do_commits(values, versions, ts) ==
    IF versions = <<>> THEN values
    ELSE LET tuple_id == versions[1][1]
             position == versions[1][2]
         IN  do_commits(
                 [values EXCEPT ![tuple_id] = MvccDoCommit(@, ts, position)],
                 Tail(versions), ts)

\* A variant of commit that skips the can_commit verdicts.
commit_unchecked(rel, tx) ==
    IF tx.tx_id \notin DOMAIN rel.commit_sets
    THEN Result(rel, "Ok")
    ELSE LET commit_set == rel.commit_sets[tx.tx_id]
             own == [i \in 1..Len(commit_set) |->
                        <<commit_set[i],
                          Max(OwnIdx(rel.values[commit_set[i]], tx.tx_id)
                              \cup {0})>>]
         IN  Result([rel EXCEPT !.values =
                        do_commits(@, own, tx.tx_start_ts)],
                    "Ok")

\* A variant of commit that, on a conflict, has already published the
\* versions that passed the check.
commit_partial(rel, tx) ==
    IF tx.tx_id \notin DOMAIN rel.commit_sets
    THEN Result(rel, "Ok")
    ELSE LET commit_set == rel.commit_sets[tx.tx_id]
             check == [i \in 1..Len(commit_set) |->
                          MvccCanCommit(rel.values[commit_set[i]],
                                        tx.tx_start_ts)]
             can_commit == \A i \in 1..Len(commit_set) :
                               check[i].kind # "Conflict"
             okpos == SelectSeq([i \in 1..Len(commit_set) |->
                                    <<commit_set[i], check[i].position,
                                      check[i].kind>>],
                                LAMBDA x : x[3] = "CanCommit")
             applied == [rel EXCEPT !.values =
                            do_commits(@, okpos, tx.tx_start_ts)]
         IN  IF ~can_commit
             THEN Result(rollback(applied, tx).rel, "Conflict")
             ELSE Result(applied, "Ok")

\* A variant of commit that answers Ok to a committable transaction without
\* publishing its versions.
commit_unapplied(rel, tx) ==
    IF tx.tx_id \notin DOMAIN rel.commit_sets
    THEN Result(rel, "Ok")
    ELSE LET commit_set == rel.commit_sets[tx.tx_id]
             can_commit == \A i \in 1..Len(commit_set) :
                               MvccCanCommit(rel.values[commit_set[i]],
                                             tx.tx_start_ts).kind # "Conflict"
         IN  IF ~can_commit
             THEN Result(rollback(rel, tx).rel, "Conflict")
             ELSE Result(rel, "Ok")

\* Relation::commit
commit(rel, tx) ==
    IF tx.tx_id \notin DOMAIN rel.commit_sets
    THEN Result(rel, "Ok")
    ELSE LET commit_set == rel.commit_sets[tx.tx_id]
             check == [i \in 1..Len(commit_set) |->
                          MvccCanCommit(rel.values[commit_set[i]],
                                        tx.tx_start_ts)]
             can_commit == \A i \in 1..Len(commit_set) :
                               check[i].kind # "Conflict"
             okpos == SelectSeq([i \in 1..Len(commit_set) |->
                                    <<commit_set[i], check[i].position,
                                      check[i].kind>>],
                                LAMBDA x : x[3] = "CanCommit")
         IN  IF ~can_commit
             THEN Result(rollback(rel, tx).rel, "Conflict")
             ELSE Result([rel EXCEPT !.values =
                             do_commits(@, okpos, tx.tx_start_ts)],
                         "Ok")

\* ------------------------------------------- tuplebox::pool (BufferPool)
\* The smallest page the tuple box asks for (do_alloc: max(32768, ..)).
PageFloor == 32768

\* usize::next_power_of_two
RECURSIVE PowerOfTwoFrom(_, _)
PowerOfTwoFrom(p, n) == IF p >= n THEN p ELSE PowerOfTwoFrom(2 * p, n)
next_power_of_two(n) == PowerOfTwoFrom(1, n)

\* The pool rounds a request up to a power of two at or above its floor.
page_size_floor == PageFloor

\* BufferPool::new(virt_size): the tests build the box over a whole number
\* of floor-sized pages (SlotBox::new(32768 * 64)).
virt_size == PageFloor * VirtPages

RECURSIVE SumOver(_, _)
SumOver(f, S) ==
    IF S = {} THEN 0
    ELSE LET x == CHOOSE y \in S : TRUE IN f[x] + SumOver(f, S \ {x})

\* Bytes of the pool held by allocated blocks.
PoolUsed(pool) == SumOver([b \in DOMAIN pool |-> pool[b].size], DOMAIN pool)

\* BufferPool::alloc(size) -> Ok((bid, addr, actual_size)) or
\* Err(InsufficientRoom): the size is rounded up to its size class and the
\* block gets the lowest free block id.
pool_alloc(pool, page_size) ==
    LET actual_size == Max({page_size_floor, next_power_of_two(page_size)})
        bid == Min({b \in 0..Cardinality(DOMAIN pool) : b \notin DOMAIN pool})
    IN  IF PoolUsed(pool) + actual_size > virt_size
        THEN [ok |-> FALSE, pool |-> pool, bid |-> 0, actual_size |-> 0]
        ELSE [ok |-> TRUE,
              pool |-> (bid :> [size |-> actual_size, slots |-> <<>>])
                          @@ pool,
              bid |-> bid, actual_size |-> actual_size]

\* BufferPool::free(bid)
pool_free(pool, bid) == [b \in DOMAIN pool \ {bid} |-> pool[b]]

\* ------------------------------------ tuplebox::tuples::slotted_page
\* Bytes of slot index one slot costs, and bytes of page header.
slot_index_overhead == 16
slot_page_header == 32
slot_page_empty_size(page_size) == page_size - slot_page_header

\* A slot index entry: used (not a tombstone), the payload length, the
\* refcount, and (for the claims) the serial number of the allocation that
\* filled it.
UsedSlots(page) ==
    {i \in 1..Len(page.slots) : page.slots[i].used}

\* SlottedPage::available_content_bytes
available_content_bytes(page) ==
    slot_page_empty_size(page.size)
      - SumOver([i \in UsedSlots(page) |->
                    page.slots[i].len + slot_index_overhead],
                UsedSlots(page))

\* SlottedPage::allocate(size, initial_value) -> Ok((slot, page_remaining,
\* buf)) or Err: the first tombstone that is large enough is reused, else a
\* slot is appended.
page_allocate(page, size, serial) ==
    IF size + slot_index_overhead > available_content_bytes(page)
    THEN [ok |-> FALSE, page |-> page, slot |-> 0, page_remaining |-> 0]
    ELSE LET fit == {i \in 1..Len(page.slots) :
                        ~page.slots[i].used /\ page.slots[i].len >= size}
             slot == IF fit # {} THEN Min(fit) ELSE Len(page.slots) + 1
             entry == [used |-> TRUE, len |-> size, refcount |-> 0,
                       serial |-> serial]
             slots == IF fit # {}
                      THEN [page.slots EXCEPT ![slot] = entry]
                      ELSE Append(page.slots, entry)
             filled == [page EXCEPT !.slots = slots]
         IN  [ok |-> TRUE, page |-> filled, slot |-> slot,
              page_remaining |-> available_content_bytes(filled)]

\* SlottedPage::get_slot(slot): Ok for a slot in use, Err(TupleNotFound) else.
has_slot(page, slot) == slot \in UsedSlots(page)

\* SlottedPage::remove_slot(slot) -> Ok((new_free, old_size, is_empty))
page_remove_slot(page, slot) ==
    IF ~has_slot(page, slot)
    THEN [ok |-> FALSE, page |-> page, new_free |-> 0, is_empty |-> FALSE]
    ELSE LET cleared == [page EXCEPT !.slots[slot].used = FALSE,
                                     !.slots[slot].refcount = 0]
         IN  [ok |-> TRUE, page |-> cleared,
              new_free |-> available_content_bytes(cleared),
              is_empty |-> UsedSlots(cleared) = {}]

\* SlottedPage::upcount(slot)
page_upcount(page, slot) ==
    IF ~has_slot(page, slot)
    THEN [ok |-> FALSE, page |-> page]
    ELSE [ok |-> TRUE,
          page |-> [page EXCEPT !.slots[slot].refcount = @ + 1]]

\* SlottedPage::dncount(slot) -> Ok(true) when the count reached zero
page_dncount(page, slot) ==
    IF ~has_slot(page, slot)
    THEN [ok |-> FALSE, page |-> page, zero |-> FALSE]
    ELSE LET n == page.slots[slot].refcount - 1
         IN  [ok |-> TRUE,
              page |-> [page EXCEPT !.slots[slot].refcount = n],
              zero |-> n = 0]

\* ------------------------------------------------ PageSpace (slotbox.rs)
\* Offsets into the two vectors are counted from 0, as in the source.
PageSpace_new(available, bid) ==
    [available |-> <<available>>, block_ids |-> <<bid>>]

\* Vec::sort_by is stable: a pair goes after the pairs that are not larger.
RECURSIVE SortPairs(_, _, _)
SortPairs(ps, done, i) ==
    IF i > Len(ps.available) THEN done
    ELSE LET a == ps.available[i]
             b == ps.block_ids[i]
             n == Cardinality({j \in 1..Len(done.available) :
                                  done.available[j] <= a})
             before(q) == SubSeq(q, 1, n)
             after(q) == SubSeq(q, n + 1, Len(q))
         IN  SortPairs(ps,
                [available |-> before(done.available) \o <<a>>
                                  \o after(done.available),
                 block_ids |-> before(done.block_ids) \o <<b>>
                                  \o after(done.block_ids)],
                i + 1)

PageSpace_sort(ps) ==
    SortPairs(ps, [available |-> <<>>, block_ids |-> <<>>], 1)

PageSpace_insert(ps, available, bid) ==
    PageSpace_sort([available |-> Append(ps.available, available),
                    block_ids |-> Append(ps.block_ids, bid)])

PageSpace_seek(ps, pid) ==
    LET at == {i \in 1..Len(ps.block_ids) : ps.block_ids[i] = pid}
    IN  IF at = {} THEN None ELSE Some(Min(at) - 1)

PageSpace_update_page(ps, pid, available, is_empty) ==
    LET index == PageSpace_seek(ps, pid)
    IN  IF index = None
        THEN [found |-> FALSE, ps |-> ps]
        ELSE [found |-> TRUE,
              ps |-> PageSpace_sort(
                  IF is_empty
                  THEN [available |-> RemoveAt(ps.available, index[1] + 1),
                        block_ids |-> RemoveAt(ps.block_ids, index[1] + 1)]
                  ELSE [ps EXCEPT !.available[index[1] + 1] = available])]

\* slice::binary_search_by over a sorted vector: the results it may give.
\* Ok(i) for an element equal to the target - with several equal elements
\* any of them may be the one found, the library leaves it unspecified -
\* else Err(i) with i the place the target would go.
binary_search(v, target) ==
    LET equal == {i \in 1..Len(v) : v[i] = target}
        below == {i \in 1..Len(v) : v[i] < target}
    IN  IF equal # {}
        THEN {[ok |-> TRUE, at |-> i - 1] : i \in equal}
        ELSE {[ok |-> FALSE, at |-> Cardinality(below)]}

\* The results find_room may give: Some(<<pid, offset>>) or None
PageSpace_find_room(ps, available) ==
    {IF found.ok THEN Some(<<ps.block_ids[found.at + 1], found.at>>)
     ELSE IF found.at = Len(ps.available) THEN None
     ELSE Some(<<ps.block_ids[found.at + 1], found.at>>) :
        found \in binary_search(ps.available, available)}

PageSpace_finish(ps, offset, page_remaining_bytes) ==
    PageSpace_sort(
        IF page_remaining_bytes = 0
        THEN [available |-> RemoveAt(ps.available, offset + 1),
              block_ids |-> RemoveAt(ps.block_ids, offset + 1)]
        ELSE [ps EXCEPT !.available[offset + 1] = page_remaining_bytes])

PageSpace_pages(ps) == {ps.block_ids[i] : i \in 1..Len(ps.block_ids)}

PageSpace_len(ps) == Len(ps.available)

\* ---------------------------------------------- Inner, SlotBox (slotbox.rs)
\* Inner is the record [pool, available_page_space, swizrefs]:
\* available_page_space maps the relation ids that have a PageSpace to it, and
\* swizrefs is the set of tuple ids that have a slot pointer. A TupleId is
\* the pair <<page, slot>>.
RelIds == {0, 1}

Inner_new ==
    [pool |-> <<>>, available_page_space |-> <<>>, swizrefs |-> {}]

\* Inner::page_for: the block resolves (else TupleNotFound).
page_for(inner, page_num) == page_num \in DOMAIN inner.pool

SetPage(inner, pid, page) ==
    [inner EXCEPT !.pool = (pid :> page) @@ @]

SetPageSpace(inner, rel, ps) ==
    [inner EXCEPT !.available_page_space = (rel :> ps) @@ @]

\* Inner::alloc -> Ok((pid, offset)) or Err(BoxFull)
alloc(inner, relation_id, page_size) ==
    LET got == pool_alloc(inner.pool, page_size)
        held == [inner EXCEPT !.pool = got.pool]
        aps == inner.available_page_space
    IN  IF ~got.ok
        THEN [ok |-> FALSE, inner |-> inner, page |-> 0, offset |-> 0]
        ELSE IF relation_id \in DOMAIN aps
        THEN LET ps == PageSpace_insert(aps[relation_id],
                           slot_page_empty_size(got.actual_size), got.bid)
             IN  [ok |-> TRUE, inner |-> SetPageSpace(held, relation_id, ps),
                  page |-> got.bid, offset |-> PageSpace_len(ps) - 1]
        ELSE [ok |-> TRUE,
              inner |-> SetPageSpace(held, relation_id,
                           PageSpace_new(
                               slot_page_empty_size(got.actual_size),
                               got.bid)),
              page |-> got.bid, offset |-> 0]

\* Inner::find_space -> Ok((pid, offset)) or Err(BoxFull): the results it
\* may give, one for each result of find_room.
find_space(inner, relation_id, tuple_size, page_size) ==
    LET aps == inner.available_page_space
    IN  IF relation_id \notin DOMAIN aps
        THEN {alloc(inner, relation_id, page_size)}
        ELSE {IF found # None
              THEN [ok |-> TRUE, inner |-> inner,
                    page |-> found[1][1], offset |-> found[1][2]]
              ELSE alloc(inner, relation_id, page_size) :
                 found \in PageSpace_find_room(aps[relation_id],
                                               tuple_size)}

\* Inner::finish_alloc
finish_alloc(inner, pid, relation_id, offset, page_remaining_bytes) ==
    SetPageSpace(inner, relation_id,
        PageSpace_finish(inner.available_page_space[relation_id], offset,
                         page_remaining_bytes))

\* Inner::do_alloc after find_space has answered space: res is "Ok" (with
\* the id of the new tuple), "BoxFull", or "panic" when the chosen page turns
\* out not to have the room.
do_alloc_in(inner, size, relation_id, serial, space) ==
    LET page == space.page
        made == page_allocate(space.inner.pool[page], size, serial)
        finished == finish_alloc(SetPage(space.inner, page, made.page), page,
                                 relation_id, space.offset,
                                 made.page_remaining)
        tuple_id == <<page, made.slot>>
        counted == page_upcount(made.page, made.slot)
    IN  IF ~space.ok
        THEN [res |-> "BoxFull", inner |-> inner, id |-> <<>>]
        ELSE IF ~made.ok
        THEN [res |-> "panic", inner |-> space.inner, id |-> <<>>]
        ELSE [res |-> "Ok",
              inner |-> [SetPage(finished, page, counted.page)
                            EXCEPT !.swizrefs = @ \cup {tuple_id}],
              id |-> tuple_id]

\* Inner::do_alloc: the results it may give.
do_alloc(inner, size, relation_id, serial) ==
    LET tuple_size == size + slot_index_overhead
        page_size == Max({PageFloor, next_power_of_two(tuple_size)})
    IN  {do_alloc_in(inner, size, relation_id, serial, space) :
            space \in find_space(inner, relation_id, tuple_size,
                                 slot_page_empty_size(page_size))}

\* Inner::report_free
report_free(inner, pid, new_size, is_empty) ==
    LET aps == inner.available_page_space
        first == Min(DOMAIN aps)
        up == PageSpace_update_page(aps[first], pid, new_size, is_empty)
    IN  IF DOMAIN aps = {} THEN inner
        ELSE IF up.found
        THEN LET kept == SetPageSpace(inner, first, up.ps)
             IN  IF is_empty
                 THEN [kept EXCEPT !.pool = pool_free(@, pid)]
                 ELSE kept
        ELSE inner

\* A variant of do_remove that removes the lowest slot in use of the page.
do_remove_lowest(inner, id) ==
    LET slot == Min(UsedSlots(inner.pool[id[1]]) \cup {id[2]})
        gone == page_remove_slot(inner.pool[id[1]], slot)
    IN  IF ~page_for(inner, id[1]) THEN [ok |-> FALSE, inner |-> inner]
        ELSE IF ~gone.ok THEN [ok |-> FALSE, inner |-> inner]
        ELSE [ok |-> TRUE,
              inner |-> report_free(SetPage(inner, id[1], gone.page), id[1],
                                    gone.new_free, gone.is_empty)]

\* Inner::do_remove
do_remove(inner, id) ==
    LET gone == page_remove_slot(inner.pool[id[1]], id[2])
    IN  IF ~page_for(inner, id[1]) THEN [ok |-> FALSE, inner |-> inner]
        ELSE IF ~gone.ok THEN [ok |-> FALSE, inner |-> inner]
        ELSE [ok |-> TRUE,
              inner |-> report_free(SetPage(inner, id[1], gone.page), id[1],
                                    gone.new_free, gone.is_empty)]

\* SlotBox::allocate
allocate(inner, size, relation_id, serial) ==
    do_alloc(inner, size, relation_id, serial)

\* SlotBox::upcount
upcount(inner, id) ==
    LET counted == page_upcount(inner.pool[id[1]], id[2])
    IN  IF ~page_for(inner, id[1]) THEN [ok |-> FALSE, inner |-> inner]
        ELSE IF ~counted.ok THEN [ok |-> FALSE, inner |-> inner]
        ELSE [ok |-> TRUE, inner |-> SetPage(inner, id[1], counted.page)]

\* SlotBox::dncount, removing the slot whatever the count has become.
dncount_any_count(inner, id) ==
    LET counted == page_dncount(inner.pool[id[1]], id[2])
        lowered == SetPage(inner, id[1], counted.page)
    IN  IF ~page_for(inner, id[1]) THEN [ok |-> FALSE, inner |-> inner]
        ELSE IF ~counted.ok THEN [ok |-> FALSE, inner |-> inner]
        ELSE do_remove(lowered, id)

\* SlotBox::dncount
dncount(inner, id) ==
    LET counted == page_dncount(inner.pool[id[1]], id[2])
        lowered == SetPage(inner, id[1], counted.page)
    IN  IF ~page_for(inner, id[1]) THEN [ok |-> FALSE, inner |-> inner]
        ELSE IF ~counted.ok THEN [ok |-> FALSE, inner |-> inner]
        ELSE IF counted.zero THEN do_remove(lowered, id)
        ELSE [ok |-> TRUE, inner |-> lowered]

\* SlotBox::get: Ok or Err(TupleNotFound)
get(inner, id) ==
    page_for(inner, id[1]) /\ has_slot(inner.pool[id[1]], id[2])

\* SlotBox::update with a value of new_len bytes. With the length of the old
\* value the bytes are copied in place ("Ok(None)"). With another length the
\* call goes on to do_remove while it holds the write lock of the page, and
\* do_remove asks for the write lock of the same page: the call waits for
\* itself ("blocked"), with the box locked.
update(inner, relation_id, id, new_len) ==
    IF ~page_for(inner, id[1]) THEN "TupleNotFound"
    ELSE IF ~has_slot(inner.pool[id[1]], id[2]) THEN "panic"
    ELSE IF inner.pool[id[1]].slots[id[2]].len = new_len THEN "Ok(None)"
    ELSE "blocked"

\* SlotBox::update_with: "TupleNotFound" when the page does not resolve,
\* "panic" when the slot is not in use (get_slot_mut(..).expect(..)), else
\* the visitor is run on the bytes of the slot ("Ok").
update_with(inner, id) ==
    IF ~page_for(inner, id[1]) THEN "TupleNotFound"
    ELSE IF ~has_slot(inner.pool[id[1]], id[2]) THEN "panic"
    ELSE "Ok"

\* BufferPool::restore(bid) of a floor-sized block: Err when the block is
\* allocated already or the pool has no room for it.
pool_restore(pool, bid) ==
    IF bid \in DOMAIN pool \/ PoolUsed(pool) + page_size_floor > virt_size
    THEN [ok |-> FALSE, pool |-> pool]
    ELSE [ok |-> TRUE,
          pool |-> (bid :> [size |-> page_size_floor, slots |-> <<>>])
                      @@ pool]

\* Inner::do_mark_page_used
do_mark_page_used(inner, relation_id, free_space, pid) ==
    IF relation_id \notin DOMAIN inner.available_page_space
    THEN SetPageSpace(inner, relation_id, PageSpace_new(free_space, pid))
    ELSE SetPageSpace(inner, relation_id,
             PageSpace_insert(inner.available_page_space[relation_id],
                              free_space, pid))

\* SlotBox::load_page: the block is restored, the page takes the slots of
\* the image that lf writes, every slot of the image gets a slot pointer and
\* a TupleRef, and the page is marked used by the relation. res is "panic"
\* when the block cannot be restored (do_restore_page(id).unwrap()).
load_page(inner, relation_id, id, image) ==
    LET back == pool_restore(inner.pool, id)
        page == [size |-> page_size_floor, slots |-> image]
        held == SetPage([inner EXCEPT !.pool = back.pool], id, page)
        ids == {<<id, i>> : i \in UsedSlots(page)}
    IN  IF ~back.ok
        THEN [res |-> "panic", inner |-> inner, ids |-> {}]
        ELSE [res |-> "Ok",
              inner |-> do_mark_page_used(
                            [held EXCEPT !.swizrefs = @ \cup ids],
                            relation_id, available_content_bytes(page), id),
              ids |-> ids]

\* SlotBox::num_pages
num_pages(inner) == Cardinality(DOMAIN inner.available_page_space)

\* SlotBox::used_pages
used_pages(inner) ==
    UNION {PageSpace_pages(inner.available_page_space[rel]) :
              rel \in DOMAIN inner.available_page_space}

\* ---------------------------------------------------------------- Var
\* A Var is a record of its variant t and, by variant, the integer n, the
\* string or error code s, or the list l (the lists of the model hold error
\* codes only, and are kept as the set of their codes).
v_none == [t |-> "none", n |-> 0, s |-> "", l |-> {}]
v_int(i) == [t |-> "int", n |-> i, s |-> "", l |-> {}]
v_err(code) == [t |-> "err", n |-> 0, s |-> code, l |-> {}]
v_str(str) == [t |-> "str", n |-> 0, s |-> str, l |-> {}]
v_objid(o) == [t |-> "obj", n |-> o, s |-> "", l |-> {}]

\* A list and a string hold their elements as the pairs <<position, element>>.
Graph(elems) == {<<i, elems[i]>> : i \in 1..Len(elems)}
v_list(values) == [t |-> "list", n |-> 0, s |-> "", l |-> Graph(values)]
v_empty_list == v_list(<<>>)

\* List::contains
contains(v, value) == \E p \in v.l : p[2] = value

\* Var::is_true, for the variants of the model. A string is held whole in s
\* (v_str) or by its characters in l (v_string): it is empty when both are.
is_true(v) ==
    \/ v.t = "int" /\ v.n # 0
    \/ v.t = "str" /\ (v.s # "" \/ v.l # {})
    \/ v.t = "list" /\ v.l # {}

\* ------------------------------------------------- var/varops.rs (Var ops)
\* Int is i64 in the source; the model keeps IntBits bits of it, in two's
\* complement.
IntMin == 0 - 2 ^ (IntBits - 1)
IntMax == 2 ^ (IntBits - 1) - 1

\* The value of x in IntMin..IntMax modulo 2^IntBits.
wrap(x) == ((x - IntMin) % 2 ^ IntBits) + IntMin

\* A string that is indexed is kept as the set of its <<position, character>>
\* pairs (positions from 1).
v_string(chars) == [t |-> "str", n |-> 0, s |-> "", l |-> Graph(chars)]
v_empty_str == v_string(<<>>)

\* Str::len / List::len
seq_len(v) == Cardinality(v.l)

\* The characters or the values of v, in order.
Elems(v) == [i \in 1..seq_len(v) |-> (CHOOSE p \in v.l : p[1] = i)[2]]

\* The Result<Var, Error> of an operation of Var: kind is "Ok" with the
\* value v, "Err" with the error value v, or "panic".
VOk(v) == [kind |-> "Ok", v |-> v]
VErr(code) == [kind |-> "Err", v |-> v_err(code)]
VPanic == [kind |-> "panic", v |-> v_none]

\* The i64 result x of +, - or * and of unary -: a result out of range
\* panics in a build with overflow checks and wraps in one without.
int_result(checks, x) ==
    IF x \in IntMin..IntMax THEN VOk(v_int(x))
    ELSE IF checks THEN VPanic
    ELSE VOk(v_int(wrap(x)))

\* i64 / and %: the quotient is truncated toward zero and the remainder has
\* the sign of the dividend; a zero divisor panics, and so does IntMin by -1,
\* in every build.
Abs(x) == IF x < 0 THEN 0 - x ELSE x
trunc_div(l, r) ==
    IF (l < 0) = (r < 0) THEN Abs(l) \div Abs(r)
    ELSE 0 - (Abs(l) \div Abs(r))
trunc_rem(l, r) == l - r * trunc_div(l, r)

\* Var::index_set: !i is the bitwise complement of the usize i, which is
\* 2^64 - 1 - i and is below the length for no index that one_to_zero_index
\* gives, so that List::set / Str::set is reached with any i; set of a
\* position past the end panics.
index_set(self, i, value) ==
    LET replaced == {p \in self.l : p[1] # i + 1} \cup {<<i + 1, value>>}
    IN
    CASE self.t = "list" ->
            IF i >= seq_len(self) THEN VPanic
            ELSE VOk([self EXCEPT !.l = replaced])
      [] self.t = "str" ->
            IF value.t # "str" THEN VErr("E_INVARG")
            ELSE IF seq_len(value) # 1 THEN VErr("E_INVARG")
            ELSE IF i >= seq_len(self) THEN VPanic
            ELSE VOk([self EXCEPT !.l =
                         {p \in self.l : p[1] # i + 1}
                         \cup {<<i + 1, Elems(value)[1]>>}])
      [] OTHER -> VErr("E_TYPE")

\* binary_numeric_coercion_op!(mul), (div), (sub), for the variants of the
\* model
mul(checks, self, v) ==
    IF self.t = "int" /\ v.t = "int" THEN int_result(checks, self.n * v.n)
    ELSE VOk(v_err("E_TYPE"))

sub(checks, self, v) ==
    IF self.t = "int" /\ v.t = "int" THEN int_result(checks, self.n - v.n)
    ELSE VOk(v_err("E_TYPE"))

div(checks, self, v) ==
    IF self.t = "int" /\ v.t = "int"
    THEN IF v.n = 0 \/ (self.n = IntMin /\ v.n = 0 - 1) THEN VPanic
         ELSE VOk(v_int(trunc_div(self.n, v.n)))
    ELSE VOk(v_err("E_TYPE"))

\* Var::add
add(checks, self, v) ==
    CASE self.t = "int" /\ v.t = "int" -> int_result(checks, self.n + v.n)
      [] self.t = "str" /\ v.t = "str" ->
            VOk(v_string(Elems(self) \o Elems(v)))
      [] OTHER -> VOk(v_err("E_TYPE"))

\* Var::negative
negative(checks, self) ==
    IF self.t = "int" THEN int_result(checks, 0 - self.n)
    ELSE VOk(v_err("E_TYPE"))

\* Var::modulus
modulus(checks, self, v) ==
    IF self.t = "int" /\ v.t = "int"
    THEN IF v.n = 0 \/ (self.n = IntMin /\ v.n = 0 - 1) THEN VPanic
         ELSE VOk(v_int(trunc_rem(self.n, v.n)))
    ELSE VOk(v_err("E_TYPE"))

\* i64::pow(base, exp) by its products, each computed as the build computes
\* it: an overflow panics with overflow checks and wraps without.
RECURSIVE pow_by(_, _, _)
pow_by(checks, base, exp) ==
    IF exp = 0 THEN VOk(v_int(1))
    ELSE CHOOSE out \in
             {IF rest.kind = "panic" THEN rest
              ELSE int_result(checks, rest.v.n * base) :
                 rest \in {pow_by(checks, base, exp - 1)}} : TRUE

\* Var::pow: `l.pow(*r as u32)`. The cast keeps the low half of the bits of
\* the exponent, as an unsigned number.
pow(checks, self, v) ==
    IF self.t = "int" /\ v.t = "int"
    THEN pow_by(checks, self.n, v.n % 2 ^ (IntBits \div 2))
    ELSE VOk(v_err("E_TYPE"))

\* Var::index_in: the place (from 1) of the first element of the list self
\* that equals v, 0 when there is none.
index_in(self, v) ==
    IF self.t # "list" THEN v_err("E_TYPE")
    ELSE LET at == {i \in 1..seq_len(self) : Elems(self)[i] = v}
         IN  IF at = {} THEN v_int(0) ELSE v_int(Min(at))

\* Var::len
len(self) ==
    IF self.t \in {"str", "list"} THEN VOk(v_int(seq_len(self)))
    ELSE VOk(v_err("E_TYPE"))

\* Var::index
index(self, idx) ==
    CASE self.t = "list" ->
            IF idx + 1 \in 1..seq_len(self) THEN VOk(Elems(self)[idx + 1])
            ELSE VOk(v_err("E_RANGE"))
      [] self.t = "str" ->
            IF idx + 1 \in 1..seq_len(self)
            THEN VOk(v_string(<<Elems(self)[idx + 1]>>))
            ELSE VOk(v_err("E_RANGE"))
      [] OTHER -> VOk(v_err("E_TYPE"))

\* Var::range
range(self, from, to) ==
    LET length == seq_len(self) IN
    CASE self.t = "str" ->
            IF to < from THEN VOk(v_empty_str)
            ELSE IF from <= 0 \/ from > length + 1 \/ to > length
            THEN VOk(v_err("E_RANGE"))
            ELSE VOk(v_string(SubSeq(Elems(self), from, to)))
      [] self.t = "list" ->
            IF to < from THEN VOk(v_list(<<>>))
            ELSE IF from <= 0 \/ from > length + 1 \/ to < 1 \/ to > length
            THEN VOk(v_err("E_RANGE"))
            ELSE VOk(v_list(SubSeq(Elems(self), from, to)))
      [] OTHER -> VOk(v_err("E_TYPE"))

\* Var::rangeset
rangeset(self, value, from, to) ==
    LET base_len == seq_len(self)
        whole == SubSeq(Elems(self), 1, from - 1) \o Elems(value)
                 \o SubSeq(Elems(self), to + 1, base_len)
    IN
    IF ~(self.t = value.t /\ self.t \in {"str", "list"})
    THEN VOk(v_err("E_TYPE"))
    ELSE IF from <= 0 \/ from > base_len + 1 \/ to < 1 \/ to > base_len
    THEN VOk(v_err("E_RANGE"))
    ELSE IF self.t = "str" THEN VOk(v_string(whole))
    ELSE VOk(v_list(whole))

\* ---------------------------------------------- vm::activation (Activation)
\* An activation is the record [verb_name, debug, pc, valstack, handler_stack,
\* env]: the verb it runs (its program is the program of that name), its
\* 'd' flag, the next opcode (counted from 0), the value stack, the handler
\* stack of records [handler_type, arg, valstack_pos], and the value of its
\* one variable (None while it is not set).
new_activation(verb_name, debug) ==
    [verb_name |-> verb_name, debug |-> debug, pc |-> 0, valstack |-> <<>>,
     handler_stack |-> <<>>, env |-> None]

a_push(a, v) == [a EXCEPT !.valstack = Append(@, v)]

\* Activation::pop of a stack that is not empty
a_pop(a) == [a EXCEPT !.valstack = SubSeq(@, 1, Len(@) - 1)]

peek_top(a) == a.valstack[Len(a.valstack)]

\* Activation::jump(label): labels are kept as the offsets they resolve to.
jump(a, label) == [a EXCEPT !.pc = label]

\* Activation::push_handler_label
push_handler_label(a, handler_type, arg) ==
    [a EXCEPT !.handler_stack =
        Append(@, [handler_type |-> handler_type, arg |-> arg,
                   valstack_pos |-> Len(a.valstack)])]

\* Activation::pop_applicable_handler: the newest handler, when it was
\* pushed at the present depth of the value stack.
has_applicable_handler(a) ==
    /\ a.handler_stack # <<>>
    /\ a.handler_stack[Len(a.handler_stack)].valstack_pos = Len(a.valstack)

applicable_handler(a) == a.handler_stack[Len(a.handler_stack)]

drop_handler(a) ==
    [a EXCEPT !.handler_stack = SubSeq(@, 1, Len(@) - 1)]

\* VMExecState: [stack, tick_count]
top(state) == state.stack[Len(state.stack)]

set_top(state, a) == [state EXCEPT !.stack[Len(state.stack)] = a]

\* ------------------------------------------------- vm_unwind.rs (VM unwind)
\* A FinallyReason is the record [kind, code, value, stack, backtrace,
\* exit_stack, label]; kind is the name of the variant.
Reason(kind) ==
    [kind |-> kind, code |-> "", value |-> v_none, stack |-> <<>>,
     backtrace |-> <<>>, exit_stack |-> 0, label |-> 0]

Fallthrough == Reason("Fallthrough")
Abort == Reason("Abort")
Return(v) == [Reason("Return") EXCEPT !.value = v]
Exit(stack, label) ==
    [Reason("Exit") EXCEPT !.exit_stack = stack, !.label = label]

FINALLY_REASON_RAISE == 0
FINALLY_REASON_UNCAUGHT == 1
FINALLY_REASON_RETURN == 2
FINALLY_REASON_ABORT == 3
FINALLY_REASON_EXIT == 4
FINALLY_REASON_FALLTHROUGH == 5

\* FinallyReason::code
reason_code(why) ==
    CASE why.kind = "Fallthrough" -> FINALLY_REASON_RAISE
      [] why.kind = "Raise" -> FINALLY_REASON_RAISE
      [] why.kind = "Uncaught" -> FINALLY_REASON_UNCAUGHT
      [] why.kind = "Return" -> FINALLY_REASON_RETURN
      [] why.kind = "Abort" -> FINALLY_REASON_ABORT
      [] why.kind = "Exit" -> FINALLY_REASON_EXIT

\* FinallyReason::from_code: every known code gives Fallthrough, any other
\* number panics.
from_code(code) ==
    IF code \in {FINALLY_REASON_RAISE, FINALLY_REASON_UNCAUGHT,
                 FINALLY_REASON_RETURN, FINALLY_REASON_ABORT,
                 FINALLY_REASON_EXIT, FINALLY_REASON_FALLTHROUGH}
    THEN Fallthrough
    ELSE Reason("panic")

\* The outcome of a call into the VM: the state it leaves, the
\* ExecutionResult variant res ("More", "Complete", "Exception",
\* "ContinueVerb"; "panic" when the call panicked; "continue" when the opcode
\* loop of exec goes on), the value of Complete or the verb of ContinueVerb,
\* and the reason of Exception.
Outcome(state, res, value, why) ==
    [state |-> state, res |-> res, value |-> value, why |-> why]

More(state) == Outcome(state, "More", v_none, Fallthrough)

Panic(state) == Outcome(state, "panic", v_none, Fallthrough)

\* What VM::find_handler_active answers: Some(frame), None, or a panic.
FoundFrame(frame) == [kind |-> "Some", frame |-> frame]
NoFrame == [kind |-> "None", frame |-> 0]
FramePanic == [kind |-> "panic", frame |-> 0]

\* The loop `for j in (i - cnt)..i` over the value stack of activation a,
\* from the 0-based place j on: "found" at a value that is no list or a list
\* with the code, "panic" at a place past the end of the value stack
\* (valstack[j] is not checked), "none" when the range is through.
RECURSIVE scan_codes(_, _, _, _)
scan_codes(a, j, i, raise_code) ==
    IF j >= i THEN "none"
    ELSE IF j >= Len(a.valstack) THEN "panic"
    ELSE IF a.valstack[j + 1].t # "list" THEN "found"
    ELSE IF contains(a.valstack[j + 1], v_err(raise_code)) THEN "found"
    ELSE scan_codes(a, j + 1, i, raise_code)

\* The body of the loop for the Catch(cnt) handler h of activation a. With
\* cnt above valstack_pos the usize `i - cnt` overflows: a panic in a build
\* with overflow checks, a start far above i and so an empty range in one
\* without.
CatchGuards(checks, a, h, raise_code) ==
    IF h.arg > h.valstack_pos
    THEN IF checks THEN "panic" ELSE "none"
    ELSE scan_codes(a, h.valstack_pos - h.arg, h.valstack_pos, raise_code)

\* `for handler in &activation.handler_stack`, from handler k on.
RECURSIVE scan_handlers(_, _, _, _)
scan_handlers(checks, a, k, raise_code) ==
    IF k > Len(a.handler_stack) THEN "none"
    ELSE IF a.handler_stack[k].handler_type # "Catch"
    THEN scan_handlers(checks, a, k + 1, raise_code)
    ELSE CHOOSE out \in
             {IF r = "none" THEN scan_handlers(checks, a, k + 1, raise_code)
              ELSE r :
                 r \in {CatchGuards(checks, a, a.handler_stack[k],
                                    raise_code)}} : TRUE

\* The loop over the frames, from frame (0 at the bottom) down.
RECURSIVE scan_frames(_, _, _)
scan_frames(state, frame, raise_code) ==
    CHOOSE out \in
        {CASE r = "found" -> FoundFrame(frame)
           [] r = "panic" -> FramePanic
           [] OTHER -> IF frame = 0 THEN NoFrame
                       ELSE scan_frames(state, frame - 1, raise_code) :
            r \in {scan_handlers(state.checks, state.stack[frame + 1], 1,
                                 raise_code)}} : TRUE

\* VM::find_handler_active: Some(frame) for the topmost frame (counted from
\* 0 at the bottom) that has a Catch handler guarding the code, else None.
\* On an empty stack `self.stack.len() - 1` overflows: a panic with
\* overflow checks, and without them stack.get(usize::MAX) is None.
find_handler_active(state, raise_code) ==
    IF state.stack = <<>>
    THEN IF state.checks THEN FramePanic ELSE NoFrame
    ELSE scan_frames(state, Len(state.stack) - 1, raise_code)

\* VM::make_stack_list: an entry (here the verb name) for every frame from
\* the top down, but for the first start_frame_num of them.
make_stack_list(frames, start_frame_num) ==
    [i \in 1..Max({0, Len(frames) - start_frame_num}) |->
        frames[Len(frames) - start_frame_num - i + 1].verb_name]

\* VM::error_backtrace_list: a line for every frame from the top down, then
\* "(End of traceback)".
error_backtrace_list(state, raise_msg) ==
    [i \in 1..(Len(state.stack) + 1) |->
        IF i = Len(state.stack) + 1
        THEN [called_from |-> FALSE, text |-> "(End of traceback)",
              msg |-> ""]
        ELSE [called_from |-> i # 1,
              text |-> state.stack[Len(state.stack) - i + 1].verb_name,
              msg |-> IF i = 1 THEN raise_msg ELSE ""]]

\* VM::unwind_stack, the inner loop over the value stack of the top
\* activation a: done is "More" when a handler took over, "panic", or
\* "none" when the value stack ran out.
RECURSIVE unwind_values(_, _)
unwind_values(a, why) ==
    IF a.valstack = <<>> THEN [a |-> a, done |-> "none"]
    ELSE
    LET popped == a_pop(a)
        handler == applicable_handler(popped)
        taken == drop_handler(popped)
    IN  IF ~has_applicable_handler(popped) THEN unwind_values(popped, why)
        ELSE IF handler.handler_type = "Finally"
        THEN IF reason_code(why) = reason_code(Abort)
             THEN unwind_values(taken, why)
             ELSE [a |-> a_push(jump(taken, handler.arg),
                                v_int(reason_code(why))),
                   done |-> "More"]
        ELSE IF handler.handler_type = "Catch"
        THEN IF why.kind # "Raise" THEN unwind_values(taken, why)
             ELSE IF ~has_applicable_handler(taken)
             THEN unwind_values(taken, why)
             ELSE
             LET label == applicable_handler(taken)
                 labelled == drop_handler(taken)
                 v == peek_top(labelled)
                 rest == a_pop(labelled)
             IN  IF label.handler_type # "CatchLabel"
                 THEN [a |-> labelled, done |-> "panic"]
                 ELSE IF labelled.valstack = <<>>
                 THEN [a |-> labelled, done |-> "panic"]
                 ELSE IF v.t # "list" \/ contains(v, v_err(why.code))
                 THEN [a |-> a_push(jump(rest, label.arg), v_err(why.code)),
                       done |-> "More"]
                 ELSE unwind_values(rest, why)
        ELSE [a |-> taken, done |-> "panic"]

\* unwind_stack that drops the return value of a called verb.
unwind_stack_unpushed(state, why) ==
    LET return_value == IF why.kind = "Return" THEN why.value ELSE v_none
        below == [state EXCEPT
                     !.stack = SubSeq(@, 1, Len(state.stack) - 1)]
    IN  IF state.stack = <<>> THEN Panic(state)
        ELSE CHOOSE result \in
            {IF walked.done = "More" THEN More(set_top(state, walked.a))
             ELSE IF walked.done = "panic"
             THEN Panic(set_top(state, walked.a))
             ELSE IF why.kind = "Exit"
             THEN More(set_top(state, jump(walked.a, why.label)))
             ELSE IF why.kind = "Uncaught"
             THEN Outcome([state EXCEPT !.stack = <<>>], "Exception",
                          v_none, why)
             ELSE IF below.stack = <<>>
             THEN Outcome(below, "Complete", return_value, Fallthrough)
             ELSE More(below) :
                walked \in {unwind_values(top(state), why)}} : TRUE

\* VM::unwind_stack
unwind_stack(state, why) ==
    LET return_value == IF why.kind = "Return" THEN why.value ELSE v_none
        below == [state EXCEPT
                     !.stack = SubSeq(@, 1, Len(state.stack) - 1)]
    IN  IF state.stack = <<>> THEN Panic(state)
        ELSE CHOOSE result \in
            {IF walked.done = "More" THEN More(set_top(state, walked.a))
             ELSE IF walked.done = "panic"
             THEN Panic(set_top(state, walked.a))
             ELSE IF why.kind = "Exit"
             THEN More(set_top(state, jump(walked.a, why.label)))
             ELSE IF why.kind = "Uncaught"
             THEN Outcome([state EXCEPT !.stack = <<>>], "Exception",
                          v_none, why)
             ELSE IF below.stack = <<>>
             THEN Outcome(below, "Complete", return_value, Fallthrough)
             ELSE More(set_top(below, a_push(top(below), return_value))) :
                walked \in {unwind_values(top(state), why)}} : TRUE

\* VM::raise_error_pack
raise_error_pack(state, code) ==
    CHOOSE out \in
        {IF handler_activ.kind = "panic" THEN Panic(state)
         ELSE unwind_stack(state,
            IF handler_activ.kind = "Some"
            THEN [Reason("Raise") EXCEPT
                     !.code = code,
                     !.stack = make_stack_list(state.stack,
                                               handler_activ.frame)]
            ELSE [Reason("Uncaught") EXCEPT
                     !.code = code,
                     !.stack = make_stack_list(state.stack, 0),
                     !.backtrace = error_backtrace_list(state, code)]) :
            handler_activ \in {find_handler_active(state, code)}} : TRUE

\* VM::push_error. self.push needs a top activation: with none it panics.
push_error(state, code) ==
    LET pushed == set_top(state, a_push(top(state), v_err(code)))
    IN  IF state.stack = <<>> THEN Panic(state)
        ELSE IF top(state).debug THEN raise_error_pack(pushed, code)
        ELSE More(pushed)

\* VM::raise_error
raise_error(state, code) == raise_error_pack(state, code)

\* ------------------------------------------------- vm_execute.rs (VM::exec)
Go(state) == Outcome(state, "continue", v_none, Fallthrough)

\* The value stack of the top activation holds at least n values.
Holds(state, n) == Len(top(state).valstack) >= n

\* An opcode that pops its operands one after the other finds fewer values
\* than it takes: the pops that succeed empty the value stack, and the pop
\* or peek_top that comes next panics.
Underflow(state) ==
    Panic(set_top(state, [top(state) EXCEPT !.valstack = <<>>]))

\* VM::prepare_call_verb: the verb is resolved by its name; a verb that is
\* not there pushes E_VERBNF, one that is gives ContinueVerb.
prepare_call_verb(state, verb, verbs) ==
    IF verb.s \in verbs
    THEN Outcome(state, "ContinueVerb", verb, Fallthrough)
    ELSE push_error(state, "E_VERBNF")

\* EndCatch / EndExcept: the code lists and CatchLabel handlers of the
\* num_excepts arms go, one value and one handler a turn (the pop of an
\* empty handler stack takes nothing).
RECURSIVE pop_excepts(_, _)
pop_excepts(a, num_excepts) ==
    IF num_excepts = 0 THEN a
    ELSE pop_excepts(
             [a_pop(a) EXCEPT !.handler_stack =
                 SubSeq(@, 1, Max({0, Len(@) - 1}))],
             num_excepts - 1)

\* Activation::update(amt, v): the value amt below the top is replaced.
a_update(a, amt, v) ==
    [a EXCEPT !.valstack[Len(a.valstack) - amt] = v]

\* Activation::peek_range(width): the width topmost values, the top last.
peek_range(a, width) ==
    SubSeq(a.valstack, Len(a.valstack) - width + 1, Len(a.valstack))

\* one_to_zero_index: index - 1 is an i64 subtraction.
one_to_zero_index(checks, v) ==
    LET idx == int_result(checks, v.n - 1) IN
    IF v.t # "int" THEN VErr("E_TYPE")
    ELSE IF idx.kind = "panic" THEN VPanic
    ELSE IF idx.v.n < 0 THEN VErr("E_RANGE")
    ELSE idx

\* binary_var_op!(vm, a, state, op): op names the operation of Var that the
\* macro expands to lhs.op(&rhs).
binary_var_op(st, op) ==
    LET a == top(st)
        rhs == peek_top(a)
        b == a_pop(a)
        lhs == peek_top(b)
        result == CASE op = "mul" -> mul(st.checks, lhs, rhs)
                    [] op = "sub" -> sub(st.checks, lhs, rhs)
                    [] op = "div" -> div(st.checks, lhs, rhs)
                    [] op = "add" -> add(st.checks, lhs, rhs)
                    [] op = "modulus" -> modulus(st.checks, lhs, rhs)
                    [] op = "pow" -> pow(st.checks, lhs, rhs)
    IN  IF ~Holds(st, 2) THEN Underflow(st)
        ELSE CASE result.kind = "Ok" ->
                    Go(set_top(st, a_update(b, 0, result.v)))
               [] result.kind = "Err" ->
                    push_error(set_top(st, a_pop(b)), result.v.s)
               [] OTHER -> Panic(set_top(st, b))

\* binary_bool_op!(a, ==) and binary_bool_op!(a, !=)
binary_bool_op(st, equal) ==
    LET a == top(st)
        rhs == peek_top(a)
        b == a_pop(a)
        lhs == peek_top(b)
    IN  IF ~Holds(st, 2) THEN Underflow(st)
        ELSE Go(set_top(st, a_update(b, 0,
                 v_int(IF (lhs = rhs) = equal THEN 1 ELSE 0))))

\* One turn of the opcode loop of VM::exec: the tick is counted, the opcode
\* at pc is fetched from opcodes, pc moves on, and the opcode is executed.
exec_op(state, opcodes, verbs) ==
    LET ticked == [state EXCEPT !.tick_count = @ + 1]
        op == opcodes[top(state).pc + 1]
        st == set_top(ticked, [top(state) EXCEPT !.pc = @ + 1])
        a == top(st)
        with(b) == set_top(st, b)
    IN
    IF top(state).pc + 1 \notin 1..Len(opcodes) THEN Panic(ticked)
    ELSE CASE op.op \in {"If", "While"} ->
            IF ~Holds(st, 1) THEN Panic(st)
            ELSE IF is_true(peek_top(a)) THEN Go(with(a_pop(a)))
            ELSE Go(with(jump(a_pop(a), op.label)))
      [] op.op = "Jump" -> Go(with(jump(a, op.label)))
      [] op.op = "Pop" ->
            IF ~Holds(st, 1) THEN Panic(st) ELSE Go(with(a_pop(a)))
      [] op.op = "ImmNone" -> Go(with(a_push(a, v_none)))
      [] op.op = "ImmInt" -> Go(with(a_push(a, v_int(op.val))))
      [] op.op = "ImmErr" -> Go(with(a_push(a, v_err(op.val))))
      [] op.op = "ImmObjid" -> Go(with(a_push(a, v_objid(op.val))))
      [] op.op = "Imm" ->
            IF a.pc + 1 \in 1..Len(opcodes) /\ opcodes[a.pc + 1].op = "Pop"
            THEN Go(with([a EXCEPT !.pc = @ + 1]))
            ELSE Go(with(a_push(a, op.val)))
      [] op.op = "GPut" ->
            IF ~Holds(st, 1) THEN Panic(st)
            ELSE Go(with([a EXCEPT !.env = Some(peek_top(a))]))
      [] op.op = "GPush" ->
            IF a.env = None THEN push_error(st, "E_VARNF")
            ELSE Go(with(a_push(a, a.env[1])))
      [] op.op = "CheckListForSplice" ->
            IF ~Holds(st, 1) THEN Panic(st)
            ELSE IF peek_top(a).t # "list"
            THEN push_error(with(a_pop(a)), "E_TYPE")
            ELSE Go(st)
      [] op.op = "CallVerb" ->
            IF ~Holds(st, 3) THEN Underflow(st)
            ELSE LET args == peek_top(a)
                     verb == peek_top(a_pop(a))
                     obj == peek_top(a_pop(a_pop(a)))
                     popped == with(a_pop(a_pop(a_pop(a))))
                 IN  IF args.t = "list" /\ verb.t = "str" /\ obj.t = "obj"
                     THEN prepare_call_verb(popped, verb, verbs)
                     ELSE push_error(popped, "E_TYPE")
      [] op.op = "IndexSet" ->
            IF ~Holds(st, 3) THEN Underflow(st)
            ELSE LET rhs == peek_top(a)
                     idx == peek_top(a_pop(a))
                     b == a_pop(a_pop(a))
                     lhs == peek_top(b)
                     i == one_to_zero_index(st.checks, idx)
                     set == index_set(lhs, i.v.n, rhs)
                 IN  CASE i.kind = "panic" -> Panic(with(b))
                       [] i.kind = "Err" ->
                            push_error(with(a_pop(b)), i.v.s)
                       [] set.kind = "panic" -> Panic(with(b))
                       [] set.kind = "Err" ->
                            push_error(with(a_pop(b)), set.v.s)
                       [] OTHER -> Go(with(a_update(b, 0, set.v)))
      [] op.op = "MakeSingletonList" ->
            IF ~Holds(st, 1) THEN Panic(st)
            ELSE Go(with(a_update(a, 0, v_list(<<peek_top(a)>>))))
      [] op.op = "Eq" -> binary_bool_op(st, TRUE)
      [] op.op = "Ne" -> binary_bool_op(st, FALSE)
      [] op.op = "In" ->
            IF ~Holds(st, 2) THEN Underflow(st)
            ELSE LET lhs == peek_top(a)
                     b == a_pop(a)
                     r == index_in(lhs, peek_top(b))
                 IN  IF r.t = "err" THEN push_error(with(a_pop(b)), r.s)
                     ELSE Go(with(a_update(b, 0, r)))
      [] op.op = "Exp" -> binary_var_op(st, "pow")
      [] op.op = "Not" ->
            IF ~Holds(st, 1) THEN Panic(st)
            ELSE Go(with(a_update(a, 0,
                     v_int(IF is_true(peek_top(a)) THEN 0 ELSE 1))))
      [] op.op = "PushRef" ->
            IF ~Holds(st, 2) THEN Panic(st)
            ELSE LET i == one_to_zero_index(st.checks, peek_top(a))
                     v == index(peek_top(a_pop(a)), i.v.n)
                 IN  CASE i.kind = "panic" -> Panic(st)
                       [] i.kind = "Err" -> push_error(st, i.v.s)
                       [] v.kind = "Err" -> push_error(st, v.v.s)
                       [] OTHER -> Go(with(a_push(a, v.v)))
      [] op.op = "Mul" -> binary_var_op(st, "mul")
      [] op.op = "Sub" -> binary_var_op(st, "sub")
      [] op.op = "Div" ->
            IF ~Holds(st, 2) THEN Panic(st)
            ELSE IF peek_range(a, 2)[2].t = "int" /\ peek_range(a, 2)[2].n = 0
            THEN push_error(st, "E_DIV")
            ELSE binary_var_op(st, "div")
      [] op.op = "Add" -> binary_var_op(st, "add")
      [] op.op = "Mod" -> binary_var_op(st, "modulus")
      [] op.op = "UnaryMinus" ->
            IF ~Holds(st, 1) THEN Panic(st)
            ELSE LET v == negative(st.checks, peek_top(a))
                 IN  CASE v.kind = "panic" -> Panic(st)
                       [] v.kind = "Err" -> push_error(with(a_pop(a)), v.v.s)
                       [] OTHER -> Go(with(a_update(a, 0, v.v)))
      [] op.op = "Ref" ->
            IF ~Holds(st, 2) THEN Underflow(st)
            ELSE LET idx == peek_top(a)
                     b == a_pop(a)
                     l == peek_top(b)
                     i == one_to_zero_index(st.checks, idx)
                     v == index(l, i.v.n)
                 IN  CASE i.kind = "panic" -> Panic(with(b))
                       [] i.kind = "Err" ->
                            push_error(with(a_pop(b)), i.v.s)
                       [] v.kind = "Err" ->
                            push_error(with(a_pop(b)), v.v.s)
                       [] OTHER -> Go(with(a_update(b, 0, v.v)))
      [] op.op = "RangeRef" ->
            IF ~Holds(st, 3) THEN Underflow(st)
            ELSE LET to == peek_top(a)
                     from == peek_top(a_pop(a))
                     b == a_pop(a_pop(a))
                     base == peek_top(b)
                     v == range(base, from.n, to.n)
                 IN  IF to.t = "int" /\ from.t = "int"
                     THEN IF v.kind = "Err"
                          THEN push_error(with(a_pop(b)), v.v.s)
                          ELSE Go(with(a_update(b, 0, v.v)))
                     ELSE push_error(with(b), "E_TYPE")
      [] op.op = "RangeSet" ->
            IF ~Holds(st, 4) THEN Underflow(st)
            ELSE LET value == peek_top(a)
                     to == peek_top(a_pop(a))
                     from == peek_top(a_pop(a_pop(a)))
                     b == a_pop(a_pop(a_pop(a)))
                     base == peek_top(b)
                     v == rangeset(base, value, from.n, to.n)
                 IN  IF to.t = "int" /\ from.t = "int"
                     THEN IF v.kind = "Err"
                          THEN push_error(with(a_pop(b)), v.v.s)
                          ELSE Go(with(a_update(b, 0, v.v)))
                     ELSE push_error(with(a_pop(b)), "E_TYPE")
      [] op.op = "Length" ->
            IF op.val + 1 \notin 1..Len(a.valstack) THEN Panic(st)
            ELSE LET v == len(a.valstack[op.val + 1])
                 IN  IF v.kind = "Err" THEN push_error(st, v.v.s)
                     ELSE Go(with(a_push(a, v.v)))
      [] op.op = "Return" ->
            IF ~Holds(st, 1) THEN Panic(st)
            ELSE unwind_stack(with(a_pop(a)), Return(peek_top(a)))
      [] op.op = "Return0" -> unwind_stack(st, Return(v_int(0)))
      [] op.op = "Done" -> unwind_stack(st, Return(v_none))
      [] op.op = "PushLabel" ->
            Go(with(push_handler_label(a, "CatchLabel", op.label)))
      [] op.op = "TryFinally" ->
            Go(with(push_handler_label(a, "Finally", op.label)))
      [] op.op = "Catch" -> Go(with(push_handler_label(a, "Catch", 1)))
      [] op.op = "TryExcept" ->
            Go(with(push_handler_label(a, "Catch", op.num_excepts)))
      [] op.op \in {"EndCatch", "EndExcept"} ->
            LET is_catch == op.op = "EndCatch"
                v == IF is_catch THEN peek_top(a) ELSE v_none
                b == IF is_catch THEN a_pop(a) ELSE a
                handler == applicable_handler(b)
                c == drop_handler(b)
                d == pop_excepts(c, handler.arg)
            IN  IF is_catch /\ ~Holds(st, 1) THEN Panic(st)
                ELSE IF ~has_applicable_handler(b) THEN Panic(with(b))
                ELSE IF handler.handler_type # "Catch" THEN Panic(with(c))
                ELSE IF Len(c.valstack) < handler.arg
                THEN Panic(with(pop_excepts(c, Len(c.valstack))))
                ELSE Go(with(jump(IF is_catch THEN a_push(d, v) ELSE d,
                                  op.label)))
      [] op.op = "EndFinally" ->
            IF ~has_applicable_handler(a) THEN Panic(st)
            ELSE IF applicable_handler(a).handler_type # "Finally"
            THEN Panic(with(drop_handler(a)))
            ELSE Go(with(a_push(a_push(drop_handler(a), v_int(0)),
                                v_int(0))))
      [] op.op = "Continue" ->
            IF ~Holds(st, 1) THEN Panic(st)
            ELSE IF peek_top(a).t # "int" THEN Panic(with(a_pop(a)))
            ELSE LET why == from_code(peek_top(a).n)
                 IN  IF why.kind = "Fallthrough" THEN Go(with(a_pop(a)))
                     ELSE IF why.kind \in {"Raise", "Uncaught", "Return",
                                           "Exit"}
                     THEN unwind_stack(with(a_pop(a)), why)
                     ELSE Panic(with(a_pop(a)))
      [] op.op = "ExitId" -> Go(with(jump(a, op.label)))
      [] op.op = "Exit" -> unwind_stack(st, Exit(op.stack, op.label))

\* VM::throw_error: the error is raised whatever the 'd' flag of the verb.
throw_error(state, code) == raise_error(state, code)

\* The opcode loop with a slice that ends one tick late.
RECURSIVE exec_loop_late(_, _, _, _, _)
exec_loop_late(state, opcodes, verbs, tick_slice, ran) ==
    IF state.tick_count > tick_slice
    THEN [out |-> More(state), ran |-> ran]
    ELSE CHOOSE run \in
             {IF turn.res = "continue"
              THEN exec_loop_late(turn.state, opcodes, verbs, tick_slice, n)
              ELSE [out |-> turn, ran |-> n] :
                 turn \in {exec_op(state, opcodes, verbs)},
                 n \in {ran + 1}} : TRUE

\* The opcode loop of VM::exec: ran counts the opcodes executed.
RECURSIVE exec_loop(_, _, _, _, _)
exec_loop(state, opcodes, verbs, tick_slice, ran) ==
    IF state.tick_count >= tick_slice
    THEN [out |-> More(state), ran |-> ran]
    ELSE CHOOSE run \in
             {IF turn.res = "continue"
              THEN exec_loop(turn.state, opcodes, verbs, tick_slice, n)
              ELSE [out |-> turn, ran |-> n] :
                 turn \in {exec_op(state, opcodes, verbs)},
                 n \in {ran + 1}} : TRUE

\* VM::exec(exec_params, state, world_state, session, tick_slice): programs
\* maps the verbs of the world to their main vectors.
exec(max_stack_depth, state, programs, tick_slice) ==
    IF Len(state.stack) >= max_stack_depth
    THEN [out |-> throw_error(state, "E_MAXREC"), ran |-> 0]
    ELSE IF state.stack = <<>>
    THEN [out |-> Panic(state), ran |-> 0]
    ELSE exec_loop(state, programs[top(state).verb_name], DOMAIN programs,
                   tick_slice, 0)

\* ------------------------------------------------------- programs of verbs
Op(name) == [op |-> name]
OpLabel(name, label) == [op |-> name, label |-> label]
OpVal(name, val) == [op |-> name, val |-> val]
CallOf(verb) ==
    <<OpVal("ImmObjid", 0), OpVal("Imm", v_str(verb)),
      OpVal("Imm", v_empty_list), Op("CallVerb")>>

\* The main vectors of the verbs, with labels resolved to offsets from 0.
Programs ==
    [loop |->       \* while (1) endwhile
        <<OpVal("ImmInt", 1), OpLabel("While", 3), OpLabel("Jump", 0),
          Op("Done")>>,
     raise |->      \* x; return 5;
        <<Op("GPush"), Op("Pop"), OpVal("ImmInt", 5), Op("Return")>>,
     caller |->     \* try this:raise(); except (E_VARNF) return 7; endtry
        <<OpVal("Imm", v_list(<<v_err("E_VARNF")>>)), OpLabel("PushLabel", 9),
          [op |-> "TryExcept", num_excepts |-> 1]>>
        \o CallOf("raise") \o
        <<Op("Pop"), OpLabel("EndExcept", 12),
          Op("Pop"), OpVal("ImmInt", 7), Op("Return"),
          Op("Done")>>,
     nested |->     \* try try x; except (E_VARNF) return 1; endtry
                    \* except (E_TYPE) return 2; endtry return 0;
        <<OpVal("Imm", v_list(<<v_err("E_TYPE")>>)), OpLabel("PushLabel", 13),
          [op |-> "TryExcept", num_excepts |-> 1],
          OpVal("Imm", v_list(<<v_err("E_VARNF")>>)), OpLabel("PushLabel", 9),
          [op |-> "TryExcept", num_excepts |-> 1],
          Op("GPush"), Op("Pop"), OpLabel("EndExcept", 12),
          Op("Pop"), OpVal("ImmInt", 1), Op("Return"),
          OpLabel("EndExcept", 16),
          Op("Pop"), OpVal("ImmInt", 2), Op("Return"),
          Op("Return0")>>,
     two_arm |->    \* try x; except (E_VARNF) return 1;
                    \* except (E_TYPE) return 2; endtry return 0;
        <<OpVal("Imm", v_list(<<v_err("E_VARNF")>>)), OpLabel("PushLabel", 8),
          OpVal("Imm", v_list(<<v_err("E_TYPE")>>)), OpLabel("PushLabel", 11),
          [op |-> "TryExcept", num_excepts |-> 2],
          Op("GPush"), Op("Pop"), OpLabel("EndExcept", 14),
          Op("Pop"), OpVal("ImmInt", 1), Op("Return"),
          Op("Pop"), OpVal("ImmInt", 2), Op("Return"),
          Op("Return0")>>,
     fin_ret |->    \* try return 5; finally 3; endtry return 9;
        <<OpLabel("TryFinally", 4), OpVal("ImmInt", 5), Op("Return"),
          Op("EndFinally"),
          OpVal("ImmInt", 3), Op("Pop"), Op("Continue"),
          OpVal("ImmInt", 9), Op("Return")>>,
     fin_raise |->  \* try x; finally 3; endtry return 9;
        <<OpLabel("TryFinally", 4), Op("GPush"), Op("Pop"),
          Op("EndFinally"),
          OpVal("ImmInt", 3), Op("Pop"), Op("Continue"),
          OpVal("ImmInt", 9), Op("Return")>>,
     exit |->       \* two values of an enclosing loop on the stack, then
                    \* while (1) break; endwhile
        <<OpVal("ImmInt", 10), OpVal("ImmInt", 20),
          OpVal("ImmInt", 1), OpLabel("While", 6),
          [op |-> "Exit", stack |-> 2, label |-> 6], OpLabel("Jump", 2),
          Op("Pop"), Op("Pop"), Op("Done")>>,
     rec |->        \* return this:rec();
        CallOf("rec") \o <<Op("Return")>>,
     rec_try |->    \* try this:rec_try(); except (E_MAXREC) return 7; endtry
        <<OpVal("Imm", v_list(<<v_err("E_MAXREC")>>)), OpLabel("PushLabel", 9),
          [op |-> "TryExcept", num_excepts |-> 1]>>
        \o CallOf("rec_try") \o
        <<Op("Pop"), OpLabel("EndExcept", 12),
          Op("Pop"), OpVal("ImmInt", 7), Op("Return"),
          Op("Done")>>,
     arm_last |->   \* try try x; except (E_TYPE) except (E_VARNF) endtry
                    \* except (E_MAXREC) return 3; endtry return 0;
        <<OpVal("Imm", v_list(<<v_err("E_MAXREC")>>)), OpLabel("PushLabel", 16),
          [op |-> "TryExcept", num_excepts |-> 1],
          OpVal("Imm", v_list(<<v_err("E_TYPE")>>)), OpLabel("PushLabel", 11),
          OpVal("Imm", v_list(<<v_err("E_VARNF")>>)), OpLabel("PushLabel", 13),
          [op |-> "TryExcept", num_excepts |-> 2],
          Op("GPush"), Op("Pop"), OpLabel("EndExcept", 15),
          Op("Pop"), OpLabel("Jump", 15),
          Op("Pop"), OpLabel("Jump", 15),
          OpLabel("EndExcept", 19),
          Op("Pop"), OpVal("ImmInt", 3), Op("Return"),
          Op("Return0")>>]

Verbs == DOMAIN Programs

\* ---------------------------------------------------------------- VmHost
\* The task of the host is the record [status, value, why, verb, dverbs,
\* max_ticks, max_stack_depth]: status is "idle" before the task is started,
\* "running" while exec_interpreter answers ContinueOk, and then the answer
\* that ended it ("AbortLimit", "CompleteSuccess", "CompleteException", or
\* "panic").
NoTask ==
    [status |-> "idle", value |-> v_none, why |-> Fallthrough,
     verb |-> "", dverbs |-> {}, max_ticks |-> 0, max_stack_depth |-> 0]

NoCall == [tick_slice |-> 0, ticks |-> 0, depth |-> 0, ran |-> 0,
           res |-> "none"]

\* VmHost::start_call_method_verb: the first activation of the task.
start_execution(verb, dverbs, checks) ==
    [stack |-> <<new_activation(verb, verb \in dverbs)>>, tick_count |-> 0,
     checks |-> checks]

\* VM::exec_call_request: the activation of the called verb goes on the
\* stack.
exec_call_request(state, verb, dverbs) ==
    [state EXCEPT !.stack = Append(@, new_activation(verb, verb \in dverbs))]

\* VmHost::exec_interpreter: the tick budget is checked, exec runs one
\* slice, and its result is acted on. The status of the task is the answer
\* of the call, "running" for ContinueOk.
exec_interpreter(tsk, state, tick_slice) ==
    IF state.tick_count >= tsk.max_ticks
    THEN [task |-> [tsk EXCEPT !.status = "AbortLimit"],
          vm |-> state, last |-> NoCall]
    ELSE CHOOSE turn \in
        {LET out == run.out
             call == [tick_slice |-> tick_slice, ticks |-> state.tick_count,
                      depth |-> Len(state.stack), ran |-> run.ran,
                      res |-> out.res]
         IN  CASE out.res = "More" ->
                [task |-> [tsk EXCEPT !.status = "running"],
                 vm |-> out.state, last |-> call]
           [] out.res = "ContinueVerb" ->
                [task |-> [tsk EXCEPT !.status = "running"],
                 vm |-> exec_call_request(out.state, out.value.s, tsk.dverbs),
                 last |-> call]
           [] out.res = "Complete" ->
                [task |-> [tsk EXCEPT !.status = "CompleteSuccess",
                                      !.value = out.value],
                 vm |-> out.state, last |-> call]
           [] out.res = "Exception" ->
                [task |-> [tsk EXCEPT !.status = "CompleteException",
                                      !.why = out.why],
                 vm |-> out.state, last |-> call]
           [] out.res = "panic" ->
                [task |-> [tsk EXCEPT !.status = "panic"],
                 vm |-> out.state, last |-> call] :
            run \in {exec(tsk.max_stack_depth, state, Programs,
                          tick_slice)}} : TRUE

\* The loop of execute: exec_interpreter is called, and called again while
\* it answers ContinueOk; the loop ends with the first other answer.
RECURSIVE run_task(_, _)
run_task(tsk, state) ==
    CHOOSE end \in
        {IF turn.task.status = "running"
         THEN run_task(turn.task, turn.vm)
         ELSE [task |-> turn.task, vm |-> turn.vm] :
            turn \in {exec_interpreter(tsk, state, tsk.max_ticks)}} : TRUE

\* execute(world_state, vm_host): reset_ticks() and reset_time(), then the
\* loop, whatever the host answered before. AbortLimit(Ticks) returns true
\* and CompleteSuccess returns false; every other answer that ends the
\* loop, CompleteException among them, is a panic!() of execute. A host
\* whose task has completed has no activation left: its exec panics.
execute(tsk, state) ==
    CHOOSE ret \in
        {IF end.task.status \in {"AbortLimit", "CompleteSuccess"}
         THEN end
         ELSE [end EXCEPT !.task.status = "panic"] :
            end \in {run_task(tsk, [state EXCEPT !.tick_count = 0])}} : TRUE

\* ------------------------------------------------------------------- state
VARIABLES
    relation,   \* the Relation<L, R>
    txs,        \* per transaction: "idle", "active", "committed",
                \* "conflict" (commit returned Conflict), "rolledback"
    wset,       \* per transaction: key -> Some(r) / None, the successful
                \* writes it has made
    wbase,      \* per transaction: key -> the number of commits that had
                \* written the key when the transaction first wrote it
    chist,      \* per key: the ids of the transactions whose Ok commit wrote
                \* the key, in commit order
    canon,      \* key -> Some(r) / None: the writes of the Ok commits, in order
    snap,       \* per active transaction: Some(result of its first full scan),
                \* taken before it wrote anything, or None
    nwrites,    \* successful write operations so far
    box,        \* the Inner of the SlotBox
    handles,    \* per allocation, in order: the tuple id it returned, its
                \* relation and the number of live TupleRef handles of it
    boxstate,   \* "ready"; "blocked" once a call waits for ever with the
                \* box locked; "poisoned" once a call panicked with it locked
    vm,         \* the VMExecState of the task
    task,       \* the task of the host: its status, its result, the verb it
                \* was started with, the verbs with the 'd' flag, and its
                \* max_ticks and max_stack_depth
    last,       \* the last call of exec: its tick_slice, the tick count and
                \* the stack depth it began with, the opcodes it ran, and
                \* its result
    threads,    \* per thread: the SlotBox call it is in, the page of the
                \* tuple id (or of the allocation), and its position in
                \* the lock steps of the call
    locks,      \* the owner of the inner mutex of the SlotBox and of the
                \* lock of the buffer pool (0: free), and per page the
                \* writer (0: none) and the readers of the page lock
    tasks,      \* per task of the scheduler: its status, the calls of
                \* vm.exec() that returned More, the state of its
                \* transaction, and the commits of it that met a conflict
    machine,    \* the opcode machine: a VMExecState of one activation with
                \* the build's overflow checks, the opcode it executed last,
                \* the value stack that opcode found, its result, and the
                \* reason and the error code of an Exception
    ws          \* the DbTxWorldState of a transaction: whether the database
                \* side of its mailbox is there, and the calls made on it
                \* with their results

boxvars == <<box, handles, boxstate>>

vmvars == <<vm, task, last>>

lockvars == <<threads, locks>>

schedvars == <<tasks>>

opvars == <<machine>>

wsvars == <<ws>>

relvars == <<relation, txs, wset, wbase, chist, canon, snap, nwrites>>

Active(t) == txs[t] = "active"

\* The id (and start timestamp) the next transaction gets.
NextId(st) == Min({t \in 1..(MaxTx + 1) : t > MaxTx \/ st[t] = "idle"})
NextTxId == NextId(txs)

FullRange == << <<"Unbounded">>, <<"Unbounded">> >>

InitRel ==
    /\ relation = NewRelation
    /\ txs = [t \in TxIds |-> "idle"]
    /\ wset = [t \in TxIds |-> <<>>]
    /\ wbase = [t \in TxIds |-> <<>>]
    /\ chist = [k \in Keys |-> <<>>]
    /\ canon = [k \in Keys |-> None]
    /\ snap = [t \in TxIds |-> None]
    /\ nwrites = 0

\* Tx::new with the next id / timestamp.
TxNew(t) ==
    /\ t = NextTxId
    /\ t <= MaxTx
    /\ txs' = [txs EXCEPT ![t] = "active"]
    /\ UNCHANGED <<relation, wset, wbase, chist, canon, snap, nwrites>>

Begin(t) ==
    /\ Active(t)
    /\ t \notin DOMAIN relation.commit_sets
    /\ relation' = begin(relation, Tx(t)).rel
    /\ UNCHANGED <<txs, wset, wbase, chist, canon, snap, nwrites>>

Write(t, k, v) == (k :> v) @@ wset[t]

\* The bookkeeping of a write operation of t that returned res and wrote
\* the keys of the function w (key -> Some(r) / None).
Wrote(t, w) ==
    /\ wset' = [wset EXCEPT ![t] = w @@ @]
    /\ wbase' = [wbase EXCEPT ![t] =
                    @ @@ [k \in DOMAIN w |-> Len(chist[k])]]
    /\ nwrites' = nwrites + 1

Insert(t, l, r) ==
    /\ Active(t)
    /\ nwrites < MaxWrites
    /\ LET o == insert(relation, Tx(t), l, r)
       IN  /\ relation' = o.rel
           /\ IF o.res = "Ok"
              THEN Wrote(t, l :> Some(r))
              ELSE UNCHANGED <<wset, wbase, nwrites>>
    /\ UNCHANGED <<txs, chist, canon, snap>>

Upsert(t, l, r) ==
    /\ Active(t)
    /\ nwrites < MaxWrites
    /\ LET o == upsert(relation, Tx(t), l, r)
       IN  /\ relation' = o.rel
           /\ IF o.res = "Ok"
              THEN Wrote(t, l :> Some(r))
              ELSE UNCHANGED <<wset, wbase, nwrites>>
    /\ UNCHANGED <<txs, chist, canon, snap>>

RemoveForL(t, l) ==
    /\ Active(t)
    /\ nwrites < MaxWrites
    /\ LET o == remove_for_l(relation, Tx(t), l)
       IN  /\ relation' = o.rel
           /\ IF o.res = "Ok"
              THEN Wrote(t, l :> None)
              ELSE UNCHANGED <<wset, wbase, nwrites>>
    /\ UNCHANGED <<txs, chist, canon, snap>>

UpdateR(t, l, r) ==
    /\ Active(t)
    /\ nwrites < MaxWrites
    /\ LET o == update_r(relation, Tx(t), l, r)
       IN  /\ relation' = o.rel
           /\ IF o.res = "Ok"
              THEN Wrote(t, l :> Some(r))
              ELSE UNCHANGED <<wset, wbase, nwrites>>
    /\ UNCHANGED <<txs, chist, canon, snap>>

\* update_l removes l and then inserts new_l; when the insert fails the
\* removal has already been recorded.
UpdateL(t, l, new_l) ==
    /\ Active(t)
    /\ nwrites < MaxWrites
    /\ LET cur == seek_for_l_eq(relation, Tx(t), l)
           o == update_l(relation, Tx(t), l, new_l)
       IN  /\ relation' = o.rel
           /\ CASE o.res = "Ok" -> Wrote(t, (new_l :> cur) @@ (l :> None))
                [] o.res = "Duplicate" -> Wrote(t, l :> None)
                [] OTHER -> UNCHANGED <<wset, wbase, nwrites>>
    /\ UNCHANGED <<txs, chist, canon, snap>>

\* A scan of the whole relation; the first one of a transaction that has
\* written nothing is remembered.
RangeForLEq(t) ==
    /\ Active(t)
    /\ snap[t] = None
    /\ wset[t] = <<>>
    /\ snap' = [snap EXCEPT ![t] =
                   Some(range_for_l_eq(relation, Tx(t), FullRange))]
    /\ UNCHANGED <<relation, txs, wset, wbase, chist, canon, nwrites>>

Commit(t) ==
    /\ Active(t)
    /\ LET o == commit(relation, Tx(t))
       IN  /\ relation' = o.rel
           /\ txs' = [txs EXCEPT ![t] =
                         IF o.res = "Ok" THEN "committed" ELSE "conflict"]
           /\ canon' = IF o.res = "Ok"
                       THEN [k \in Keys |->
                               IF k \in DOMAIN wset[t]
                               THEN wset[t][k] ELSE canon[k]]
                       ELSE canon
           /\ chist' = IF o.res = "Ok"
                       THEN [k \in Keys |->
                               IF k \in DOMAIN wset[t]
                               THEN Append(chist[k], t) ELSE chist[k]]
                       ELSE chist
    /\ snap' = [snap EXCEPT ![t] = None]
    /\ UNCHANGED <<wset, wbase, nwrites>>

Rollback(t) ==
    /\ Active(t)
    /\ relation' = rollback(relation, Tx(t)).rel
    /\ txs' = [txs EXCEPT ![t] = "rolledback"]
    /\ snap' = [snap EXCEPT ![t] = None]
    /\ UNCHANGED <<wset, wbase, chist, canon, nwrites>>

NextRel ==
    \/ \E t \in TxIds : TxNew(t) /\ UNCHANGED <<boxvars, vmvars, lockvars, schedvars, opvars, wsvars>>
    \/ \E t \in TxIds, l \in Keys, r \in Vals :
          Insert(t, l, r) /\ UNCHANGED <<boxvars, vmvars, lockvars, schedvars, opvars, wsvars>>
    \/ \E t \in TxIds, l \in Keys, r \in Vals :
          Upsert(t, l, r) /\ UNCHANGED <<boxvars, vmvars, lockvars, schedvars, opvars, wsvars>>
    \/ \E t \in TxIds, l \in Keys : RemoveForL(t, l) /\ UNCHANGED <<boxvars, vmvars, lockvars, schedvars, opvars, wsvars>>
    \/ \E t \in TxIds, l \in Keys, r \in Vals :
          UpdateR(t, l, r) /\ UNCHANGED <<boxvars, vmvars, lockvars, schedvars, opvars, wsvars>>
    \/ \E t \in TxIds, l \in Keys, n \in Keys :
          UpdateL(t, l, n) /\ UNCHANGED <<boxvars, vmvars, lockvars, schedvars, opvars, wsvars>>
    \/ \E t \in TxIds : Commit(t) /\ UNCHANGED <<boxvars, vmvars, lockvars, schedvars, opvars, wsvars>>
    \/ \E t \in TxIds : Rollback(t) /\ UNCHANGED <<boxvars, vmvars, lockvars, schedvars, opvars, wsvars>>

\* ------------------------------------------------------- the SlotBox state
\* Payload lengths of the tuples of a workload: three of the first fit on a
\* floor-sized page, the second fills one to the last byte.
Sizes == {10000, slot_page_empty_size(PageFloor) - slot_index_overhead}

\* SlotBox::new(virt_size)
InitBox ==
    /\ box = Inner_new
    /\ handles = <<>>
    /\ boxstate = "ready"

Live(g) == g \in 1..Len(handles) /\ handles[g].n > 0

\* sb.allocate(size, relation_id, ..): the TupleRef it returns is the one
\* live handle of the new tuple.
Allocate(size, rel) ==
    /\ boxstate = "ready"
    /\ Len(handles) < MaxAllocs
    /\ \E out \in allocate(box, size, rel, Len(handles) + 1) :
           /\ box' = out.inner
           /\ handles' = IF out.res = "Ok"
                         THEN Append(handles,
                                     [id |-> out.id, rel |-> rel, n |-> 1])
                         ELSE handles
           /\ boxstate' = IF out.res = "panic" THEN "poisoned" ELSE boxstate
    /\ UNCHANGED <<relvars, vmvars, lockvars, schedvars, opvars, wsvars>>

\* TupleRef::clone: upcount, and one more handle.
Clone(g) ==
    /\ boxstate = "ready"
    /\ Live(g)
    /\ handles[g].n < MaxHandles
    /\ box' = upcount(box, handles[g].id).inner
    /\ handles' = [handles EXCEPT ![g].n = @ + 1]
    /\ UNCHANGED <<boxstate, relvars, vmvars, lockvars, schedvars, opvars, wsvars>>

\* TupleRef::drop: dncount, and one handle fewer.
Drop(g) ==
    /\ boxstate = "ready"
    /\ Live(g)
    /\ box' = dncount(box, handles[g].id).inner
    /\ handles' = [handles EXCEPT ![g].n = @ - 1]
    /\ UNCHANGED <<boxstate, relvars, vmvars, lockvars, schedvars, opvars, wsvars>>

\* sb.update(relation_id, id, new_value) through a live handle.
Update(g, new_len) ==
    /\ boxstate = "ready"
    /\ Live(g)
    /\ LET out == update(box, handles[g].rel, handles[g].id, new_len)
       IN  boxstate' = IF out = "blocked" THEN "blocked"
                       ELSE IF out = "panic" THEN "poisoned"
                       ELSE boxstate
    /\ UNCHANGED <<box, handles, relvars, vmvars, lockvars, schedvars, opvars, wsvars>>

\* The page images a box is loaded from: one tuple, with the count of its
\* one reference.
Images(serial) ==
    {<<[used |-> TRUE, len |-> 10000, refcount |-> 1, serial |-> serial]>>}

\* sb.load_page(relation_id, id, lf): the TupleRef of the tuple of the image
\* is its one live handle.
LoadPage(rel, id) ==
    /\ boxstate = "ready"
    /\ Len(handles) < MaxAllocs
    /\ \E image \in Images(Len(handles) + 1) :
          LET out == load_page(box, rel, id, image)
          IN  /\ box' = out.inner
              /\ handles' = IF out.res = "Ok"
                            THEN Append(handles,
                                     [id |-> <<id, 1>>, rel |-> rel, n |-> 1])
                            ELSE handles
              /\ boxstate' = IF out.res = "panic" THEN "poisoned"
                             ELSE boxstate
    /\ UNCHANGED <<relvars, vmvars, lockvars, schedvars, opvars, wsvars>>

NextBox ==
    \/ \E size \in Sizes, rel \in RelIds : Allocate(size, rel)
    \/ \E g \in 1..MaxAllocs : Clone(g)
    \/ \E g \in 1..MaxAllocs : Drop(g)
    \/ \E g \in 1..MaxAllocs, new_len \in Sizes : Update(g, new_len)

\* ------------------------------------------------------------ the VM state
InitVM ==
    /\ vm = [stack |-> <<>>, tick_count |-> 0, checks |-> FALSE]
    /\ task = NoTask
    /\ last = NoCall

DebugSets == {Verbs, {}, {"raise"}}

\* The host starts the task on a verb.
StartTask(verb, dverbs, max_ticks, max_stack_depth, checks) ==
    /\ task.status = "idle"
    /\ task' = [NoTask EXCEPT !.status = "running", !.verb = verb,
                              !.dverbs = dverbs, !.max_ticks = max_ticks,
                              !.max_stack_depth = max_stack_depth]
    /\ vm' = start_execution(verb, dverbs, checks)
    /\ last' = NoCall
    /\ UNCHANGED <<relvars, boxvars, lockvars, schedvars, opvars, wsvars>>

\* The host calls exec_interpreter for a slice.
ExecInterpreter(tick_slice) ==
    /\ task.status = "running"
    /\ \E turn \in {exec_interpreter(task, vm, tick_slice)} :
          /\ task' = turn.task
          /\ vm' = turn.vm
          /\ last' = turn.last
    /\ UNCHANGED <<relvars, boxvars, lockvars, schedvars, opvars, wsvars>>

\* do_program calls execute on the host it has prepared, iters times,
\* whatever the call before returned; a panic of execute leaves do_program.
Execute ==
    /\ task.status \notin {"idle", "panic"}
    /\ \E end \in {execute(task, vm)} :
          /\ task' = end.task
          /\ vm' = end.vm
    /\ last' = NoCall
    /\ UNCHANGED <<relvars, boxvars, lockvars, schedvars, opvars, wsvars>>

NextVM ==
    \/ Execute
    \/ \E verb \in Verbs, dverbs \in DebugSets,
          max_ticks \in {FewTicks, MaxTicks},
          max_stack_depth \in {MaxStackDepth - 1, MaxStackDepth},
          checks \in BOOLEAN :
          StartTask(verb, dverbs, max_ticks, max_stack_depth, checks)
    \/ \E tick_slice \in {vm.tick_count + 1, task.max_ticks} :
          ExecInterpreter(tick_slice)

\* ------------------------------------------- the locks of the SlotBox
\* The calls of the threads. allocate finds room on a page of the relation,
\* allocate_new gets a new page from the pool, allocate_full is refused one
\* (BoxFull). dncount_zero is a dncount that brings the count to zero,
\* dncount_last one that also empties the page; update_same is an update
\* with a value of the stored length, update_moved with another (and
\* update_moved_new one whose new tuple would need a new page).
Calls == {"allocate", "allocate_new", "allocate_full", "get", "upcount",
          "dncount", "dncount_zero", "dncount_last", "update_same",
          "update_moved", "update_moved_new"}

\* Inner::page_for: the buffer pool resolves the block under its own lock.
ResolvePage == <<"pool", "unpool">>

\* Inner::do_remove: page_for, write_lock, remove_slot, report_free (which
\* frees the block to the pool when the page is empty), guard dropped.
RemoveSteps(is_empty) ==
    ResolvePage \o <<"write">>
       \o (IF is_empty THEN <<"pool", "unpool">> ELSE <<>>)
       \o <<"unpage">>

\* Inner::alloc: pool.alloc enters the buffer pool.
NewPage == <<"pool", "unpool">>

\* Inner::do_alloc: find_space (which calls Inner::alloc when no page of the
\* relation has room), page_for, write_lock, allocate, upcount on the
\* guard, guard dropped.
AllocSteps(new_page) ==
    (IF new_page THEN NewPage ELSE <<>>)
       \o ResolvePage \o <<"write", "unpage">>

\* The lock steps of a call, in program order: "inner" / "uninner" lock
\* and unlock the mutex of the SlotBox, "pool" / "unpool" the lock of the
\* buffer pool, "read" and "write" take the lock of the page and "unpage"
\* drops the last guard taken on it.
script(call) ==
    CASE call = "allocate" ->
            <<"inner">> \o AllocSteps(FALSE) \o <<"uninner">>
      [] call = "allocate_new" ->
            <<"inner">> \o AllocSteps(TRUE) \o <<"uninner">>
      [] call = "allocate_full" ->
            <<"inner">> \o NewPage \o <<"uninner">>
      [] call = "get" ->
            <<"inner">> \o ResolvePage \o <<"read", "unpage", "uninner">>
      [] call \in {"upcount", "dncount"} ->
            <<"inner">> \o ResolvePage \o <<"write", "unpage", "uninner">>
      [] call = "dncount_zero" ->
            <<"inner">> \o ResolvePage \o <<"write", "unpage">>
               \o RemoveSteps(FALSE) \o <<"uninner">>
      [] call = "dncount_last" ->
            <<"inner">> \o ResolvePage \o <<"write", "unpage">>
               \o RemoveSteps(TRUE) \o <<"uninner">>
      [] call = "update_same" ->
            <<"inner">> \o ResolvePage \o <<"write", "unpage", "uninner">>
      [] call \in {"update_moved", "update_moved_new"} ->
            <<"inner">> \o ResolvePage \o <<"write">>
               \o RemoveSteps(FALSE)
               \o AllocSteps(call = "update_moved_new")
               \o <<"unpage", "uninner">>

Threads == 1..MaxThreads
Pages == 0..(VirtPages - 1)

NoThread == [call |-> "", page |-> 0, at |-> 0]

InitLocks ==
    /\ threads = [t \in Threads |-> NoThread]
    /\ locks = [inner |-> 0, pool |-> 0,
                page |-> [p \in Pages |-> [writer |-> 0, readers |-> {}]]]

\* The lock step the thread is at, "" when it is in no call or at its end.
StepOf(t) ==
    IF threads[t].call # "" /\ threads[t].at <= Len(script(threads[t].call))
    THEN script(threads[t].call)[threads[t].at]
    ELSE ""

\* The holders of the lock the thread asks for that keep it from it.
WaitsFor(t) ==
    LET pl == locks.page[threads[t].page]
    IN  CASE StepOf(t) = "inner" -> {locks.inner} \ {0}
          [] StepOf(t) = "pool" -> {locks.pool} \ {0}
          [] StepOf(t) = "read" -> {pl.writer} \ {0}
          [] StepOf(t) = "write" -> ({pl.writer} \ {0}) \cup pl.readers
          [] OTHER -> {}

Advance(t) == threads' = [threads EXCEPT ![t].at = @ + 1]

\* A thread calls into the SlotBox.
Enter(t, call, page) ==
    /\ threads[t].call = ""
    /\ threads' = [threads EXCEPT ![t] =
                       [call |-> call, page |-> page, at |-> 1]]
    /\ UNCHANGED <<locks, relvars, boxvars, vmvars, schedvars, opvars, wsvars>>

\* self.inner.lock(), the lock of the pool, read_lock() and write_lock():
\* none is re-entrant; the thread waits until the lock is free.
Acquire(t) ==
    /\ StepOf(t) \in {"inner", "pool", "read", "write"}
    /\ WaitsFor(t) = {}
    /\ locks' =
          CASE StepOf(t) = "inner" -> [locks EXCEPT !.inner = t]
            [] StepOf(t) = "pool" -> [locks EXCEPT !.pool = t]
            [] StepOf(t) = "read" ->
                  [locks EXCEPT !.page[threads[t].page].readers
                                    = @ \cup {t}]
            [] StepOf(t) = "write" ->
                  [locks EXCEPT !.page[threads[t].page].writer = t]
    /\ Advance(t)
    /\ UNCHANGED <<relvars, boxvars, vmvars, schedvars, opvars, wsvars>>

\* A guard is dropped.
Release(t) ==
    /\ StepOf(t) \in {"uninner", "unpool", "unpage"}
    /\ locks' =
          CASE StepOf(t) = "uninner" -> [locks EXCEPT !.inner = 0]
            [] StepOf(t) = "unpool" -> [locks EXCEPT !.pool = 0]
            [] StepOf(t) = "unpage" ->
                  [locks EXCEPT !.page[threads[t].page] =
                      [writer |-> IF @.writer = t THEN 0 ELSE @.writer,
                       readers |-> @.readers \ {t}]]
    /\ Advance(t)
    /\ UNCHANGED <<relvars, boxvars, vmvars, schedvars, opvars, wsvars>>

\* The call returns.
Leave(t) ==
    /\ threads[t].call # ""
    /\ threads[t].at > Len(script(threads[t].call))
    /\ threads' = [threads EXCEPT ![t] = NoThread]
    /\ UNCHANGED <<locks, relvars, boxvars, vmvars, schedvars, opvars, wsvars>>

NextLocks ==
    \/ \E t \in Threads, call \in Calls, page \in Pages : Enter(t, call, page)
    \/ \E t \in Threads : Acquire(t)
    \/ \E t \in Threads : Release(t)
    \/ \E t \in Threads : Leave(t)

\* ------------------------------------------- the tasks of the scheduler
TaskIds == 1..MaxTasks

NoTaskYet == [status |-> "none", slices |-> 0, tx |-> "none", conflicts |-> 0]

InitSched == tasks = [k \in TaskIds |-> NoTaskYet]

\* Scheduler::setup_command_task. TaskState::new_task gives the task a VM
\* over a new world state (its transaction) and puts it in the SlotMap;
\* made is "Err" when new_world_state() fails: no task. Then the verb is
\* set up by vm.do_method_verb; set_up is "Err" when it fails or answers
\* something else than E_NONE: the call returns Err, the task id is lost and
\* the task stays in the SlotMap with its transaction open ("orphan").
SetupCommandTask(k, made, set_up) ==
    /\ tasks[k].status = "none"
    /\ tasks' = [tasks EXCEPT ![k] =
          CASE made = "Err" -> @
            [] set_up = "Err" ->
                  [status |-> "orphan", slices |-> 0, tx |-> "open",
                   conflicts |-> 0]
            [] OTHER ->
                  [status |-> "setup", slices |-> 0, tx |-> "open",
                   conflicts |-> 0]]
    /\ UNCHANGED <<relvars, boxvars, vmvars, lockvars, opvars, wsvars>>

\* Task::run, from its first turn to its return: vm.exec() answers Ok(More)
\* more times and the loop goes on, then it answers result -
\* Ok(Complete(_)) or Err(_) - and, after Complete, vm.commit() returns
\* committed; after Err, vm.rollback() returns rolledback. On Complete the
\* commit is unwrapped: a commit that returns Err(Conflict), having rolled
\* the transaction back, panics the task (the loop is left by the panic,
\* and the JoinHandle of the spawned task reports it). On Err the rollback
\* is unwrapped: a rollback that fails panics the task with its transaction
\* as it was.
Task_run(tsk, more, result, committed, rolledback) ==
    LET ran == [tsk EXCEPT !.slices = @ + more]
    IN  CASE result = "Complete" /\ committed = "Ok" ->
                [ran EXCEPT !.status = "complete",
                            !.tx = IF @ = "open" THEN "committed" ELSE @]
          [] result = "Complete" /\ committed = "Conflict" ->
                [ran EXCEPT !.status = "panicked",
                            !.tx = IF @ = "open" THEN "rolledback" ELSE @,
                            !.conflicts = @ + 1]
          [] result = "Err" /\ rolledback = "Err" ->
                [ran EXCEPT !.status = "panicked"]
          [] OTHER ->
                [ran EXCEPT !.status = "failed",
                            !.tx = IF @ = "open" THEN "rolledback" ELSE @]

\* Scheduler::start_task(task_id), for an id that setup_command_task has
\* returned: get_task(task_id).unwrap() - the call panics when the task
\* has been removed from the SlotMap - and Task::run is spawned on the task
\* and awaited, so it runs to its end inside the call. Nothing is asked of
\* what the task did before: a task that has completed, failed or panicked
\* is run again.
Scheduler_start_task(k, more, result, committed, rolledback) ==
    /\ tasks[k].status \notin {"none", "orphan"}
    /\ tasks[k].slices + more <= MaxSlices
    /\ (result = "Complete" /\ committed = "Conflict")
          => tasks[k].conflicts < MaxConflicts
    /\ tasks' = [tasks EXCEPT ![k] =
          IF @.status = "removed" THEN @
          ELSE Task_run(@, more, result, committed, rolledback)]
    /\ UNCHANGED <<relvars, boxvars, vmvars, lockvars, opvars, wsvars>>

\* The task is in the SlotMap.
Held(k) == tasks[k].status \in {"setup", "complete", "failed", "panicked"}

\* TaskState::commit_task(id): vm.commit()? - an Err is returned and the
\* task stays - and the task is removed from the SlotMap.
CommitTask(k, committed) ==
    /\ Held(k)
    /\ tasks' = [tasks EXCEPT ![k] =
          CASE committed = "Ok" ->
                  [@ EXCEPT !.status = "removed",
                            !.tx = IF @ = "open" THEN "committed" ELSE @]
            [] OTHER ->
                  [@ EXCEPT !.tx = IF @ = "open" THEN "rolledback" ELSE @]]
    /\ UNCHANGED <<relvars, boxvars, vmvars, lockvars, opvars, wsvars>>

\* TaskState::rollback_task(id): vm.rollback()? and the task is removed.
RollbackTask(k, rolledback) ==
    /\ Held(k)
    /\ tasks' = [tasks EXCEPT ![k] =
          CASE rolledback = "Ok" ->
                  [@ EXCEPT !.status = "removed",
                            !.tx = IF @ = "open" THEN "rolledback" ELSE @]
            [] OTHER -> @]
    /\ UNCHANGED <<relvars, boxvars, vmvars, lockvars, opvars, wsvars>>

NextSched ==
    \/ \E k \in TaskIds, made \in {"Ok", "Err"}, set_up \in {"Ok", "Err"} :
          SetupCommandTask(k, made, set_up)
    \/ \E k \in TaskIds, more \in 0..MaxSlices,
          result \in {"Complete", "Err"},
          committed \in {"Ok", "Conflict"}, rolledback \in {"Ok", "Err"} :
          Scheduler_start_task(k, more, result, committed, rolledback)
    \/ \E k \in TaskIds, committed \in {"Ok", "Conflict"} :
          CommitTask(k, committed)
    \/ \E k \in TaskIds, rolledback \in {"Ok", "Err"} :
          RollbackTask(k, rolledback)

\* ------------------------------------------------- the opcode machine
\* The values the verb loads.
Operands ==
    {v_int(IntMin), v_int(0 - 1), v_int(0), v_int(1), v_int(2), v_int(IntMax),
     v_string(<<v_str("a"), v_str("b")>>),
     v_list(<<v_int(1), v_int(2)>>), v_none}

\* The opcodes that consume operands, and the number of values each takes
\* from the value stack.
OperandOps ==
    {Op("Add"), Op("Sub"), Op("Mul"), Op("Div"), Op("Mod"), Op("Exp"),
     Op("UnaryMinus"), Op("Not"), Op("Eq"), Op("Ne"), Op("In"),
     Op("MakeSingletonList"), Op("Ref"), Op("PushRef"), Op("IndexSet"),
     Op("RangeRef"), Op("RangeSet"), OpVal("Length", 0)}

Arity(name) ==
    CASE name \in {"UnaryMinus", "Not", "MakeSingletonList", "Length"} -> 1
      [] name \in {"Add", "Sub", "Mul", "Div", "Mod", "Exp", "Eq", "Ne", "In",
                   "Ref", "PushRef"} -> 2
      [] name \in {"IndexSet", "RangeRef"} -> 3
      [] name = "RangeSet" -> 4

\* The machine before its verb runs: one activation, no opcode executed.
NewMachine(debug, checks) ==
    [state |-> [stack |-> <<new_activation("machine", debug)>>,
                tick_count |-> 0, checks |-> checks],
     op |-> "none", before |-> <<>>, res |-> "continue",
     why |-> "Fallthrough", code |-> ""]

InitMachine == machine = NewMachine(FALSE, FALSE)

\* The verb of the machine is compiled with or without the 'd' flag, by a
\* build with or without overflow checks.
MachineStart(debug, checks) ==
    /\ machine' = NewMachine(debug, checks)
    /\ UNCHANGED <<relvars, boxvars, vmvars, lockvars, schedvars, wsvars>>

\* VM::exec executes the one opcode op.
MachineExec(op) ==
    /\ machine.res = "continue"
    /\ \E turn \in {exec_op(set_top(machine.state,
                                    [top(machine.state) EXCEPT !.pc = 0]),
                            <<op>>, {})} :
          machine' = [state |-> turn.state, op |-> op.op,
                      before |-> top(machine.state).valstack,
                      res |-> turn.res, why |-> turn.why.kind,
                      code |-> turn.why.code]
    /\ UNCHANGED <<relvars, boxvars, vmvars, lockvars, schedvars, wsvars>>

\* The verb loads its operands and then executes one opcode on them.
NextMachine ==
    \/ \E debug \in BOOLEAN, checks \in BOOLEAN : MachineStart(debug, checks)
    \/ \E v \in Operands :
          /\ machine.op \in {"none", "Imm"}
          /\ Len(top(machine.state).valstack) < MaxOperands
          /\ MachineExec(OpVal("Imm", v))
    \/ \E op \in OperandOps :
          /\ machine.op \in {"none", "Imm"}
          /\ Len(top(machine.state).valstack) >= Arity(op.op)
          /\ MachineExec(op)

\* ------------------------------------------------- the world state
\* The calls of one DbTxWorldState a behaviour makes.
\* DbTxWorldState::owner_of, and every operation of the same shape: the
\* message is sent with expect and the reply awaited with expect; send fails
\* when the database side of the mailbox is gone. reply is the answer of
\* the database side: "Ok" or "Err", a WorldStateError.
owner_of(mailbox, reply) ==
    IF mailbox = "closed" THEN "panic" ELSE reply

\* DbTxWorldState::set_flags_of: flags_of and owner_of, the check of the
\* permissions, and then the message of its own.
set_flags_of(mailbox, flags, owner, allowed, reply) ==
    CASE owner_of(mailbox, flags) # "Ok" -> owner_of(mailbox, flags)
      [] owner_of(mailbox, owner) # "Ok" -> owner_of(mailbox, owner)
      [] ~allowed -> "Err"
      [] OTHER -> owner_of(mailbox, reply)

\* DbTxWorldState::commit and DbTxWorldState::rollback: the message is sent
\* with ?, and the reply awaited with ?.
DbTxWorldState_commit(mailbox, reply) ==
    IF mailbox = "closed" THEN "Err" ELSE reply

DbTxWorldState_rollback(mailbox) ==
    IF mailbox = "closed" THEN "Err" ELSE "Ok"

InitWs == ws = [mailbox |-> "open", log |-> <<>>]

\* The process goes on while no call has panicked.
WsAlive ==
    /\ Len(ws.log) < MaxCalls
    /\ \A i \in 1..Len(ws.log) : ws.log[i].result # "panic"

Logged(call, result) ==
    Append(ws.log, [call |-> call, result |-> result,
                    mailbox |-> ws.mailbox])

OwnerOf(reply) ==
    /\ WsAlive
    /\ ws' = [ws EXCEPT !.log = Logged("owner_of",
                                       owner_of(ws.mailbox, reply))]
    /\ UNCHANGED <<relvars, boxvars, vmvars, lockvars, schedvars, opvars>>

SetFlagsOf(flags, owner, allowed, reply) ==
    /\ WsAlive
    /\ ws' = [ws EXCEPT !.log =
                 Logged("set_flags_of",
                        set_flags_of(ws.mailbox, flags, owner, allowed,
                                     reply))]
    /\ UNCHANGED <<relvars, boxvars, vmvars, lockvars, schedvars, opvars>>

\* The database side answers Commit and Rollback and then ends: its side of
\* the mailbox is dropped.
WsCommit(reply) ==
    /\ WsAlive
    /\ ws' = [mailbox |-> "closed",
              log |-> Logged("commit",
                             DbTxWorldState_commit(ws.mailbox, reply))]
    /\ UNCHANGED <<relvars, boxvars, vmvars, lockvars, schedvars, opvars>>

WsRollback ==
    /\ WsAlive
    /\ ws' = [mailbox |-> "closed",
              log |-> Logged("rollback",
                             DbTxWorldState_rollback(ws.mailbox))]
    /\ UNCHANGED <<relvars, boxvars, vmvars, lockvars, schedvars, opvars>>

NextWs ==
    \/ \E reply \in {"Ok", "Err"} : OwnerOf(reply)
    \/ \E flags \in {"Ok", "Err"}, owner \in {"Ok", "Err"},
          allowed \in BOOLEAN, reply \in {"Ok", "Err"} :
          SetFlagsOf(flags, owner, allowed, reply)
    \/ \E reply \in {"Success", "ConflictRetry"} : WsCommit(reply)
    \/ WsRollback

vars == <<relvars, boxvars, vmvars, lockvars, schedvars, opvars, wsvars>>

Init ==
    /\ InitRel /\ InitBox /\ InitVM /\ InitLocks /\ InitSched
    /\ InitMachine /\ InitWs
Next == NextRel
Spec == Init /\ [][Next]_vars

\* The relation with transactions that also call begin and scan it.
NextSnap ==
    \/ \E t \in TxIds : TxNew(t) /\ UNCHANGED <<boxvars, vmvars, lockvars, schedvars, opvars, wsvars>>
    \/ \E t \in TxIds : Begin(t) /\ UNCHANGED <<boxvars, vmvars, lockvars, schedvars, opvars, wsvars>>
    \/ \E t \in TxIds, l \in Keys, r \in Vals :
          Insert(t, l, r) /\ UNCHANGED <<boxvars, vmvars, lockvars, schedvars, opvars, wsvars>>
    \/ \E t \in TxIds, l \in Keys : RemoveForL(t, l) /\ UNCHANGED <<boxvars, vmvars, lockvars, schedvars, opvars, wsvars>>
    \/ \E t \in TxIds, l \in Keys, r \in Vals :
          UpdateR(t, l, r) /\ UNCHANGED <<boxvars, vmvars, lockvars, schedvars, opvars, wsvars>>
    \/ \E t \in TxIds : RangeForLEq(t) /\ UNCHANGED <<boxvars, vmvars, lockvars, schedvars, opvars, wsvars>>
    \/ \E t \in TxIds : Commit(t) /\ UNCHANGED <<boxvars, vmvars, lockvars, schedvars, opvars, wsvars>>
    \/ \E t \in TxIds : Rollback(t) /\ UNCHANGED <<boxvars, vmvars, lockvars, schedvars, opvars, wsvars>>

SpecSnap == Init /\ [][NextSnap]_vars

\* The relation made by Relation::new_bidirectional(): the same operations
\* on a relation with a secondary index.
InitBidi ==
    /\ relation = NewBidirectional
    /\ txs = [t \in TxIds |-> "idle"]
    /\ wset = [t \in TxIds |-> <<>>]
    /\ wbase = [t \in TxIds |-> <<>>]
    /\ chist = [k \in Keys |-> <<>>]
    /\ canon = [k \in Keys |-> None]
    /\ snap = [t \in TxIds |-> None]
    /\ nwrites = 0
    /\ InitBox /\ InitVM /\ InitLocks /\ InitSched
    /\ InitMachine /\ InitWs

SpecBidi == InitBidi /\ [][NextRel]_vars

\* A SlotBox and the handles of its tuples.
SpecSlotBox == Init /\ [][NextBox]_vars

\* A SlotBox that is also loaded from page images.
NextLoad ==
    \/ \E size \in Sizes, rel \in RelIds : Allocate(size, rel)
    \/ \E rel \in RelIds, id \in 0..(VirtPages - 1) : LoadPage(rel, id)
    \/ \E g \in 1..MaxAllocs : Clone(g)
    \/ \E g \in 1..MaxAllocs : Drop(g)
    \/ \E g \in 1..MaxAllocs, new_len \in Sizes : Update(g, new_len)

SpecLoad == Init /\ [][NextLoad]_vars

\* A task of the VM.
SpecVM == Init /\ [][NextVM]_vars

\* Threads that call into one SlotBox.
SpecLocks == Init /\ [][NextLocks]_vars

\* The tasks of the scheduler.
SpecSched == Init /\ [][NextSched]_vars

\* The opcode machine
SpecMachine == Init /\ [][NextMachine]_vars

\* The world state of one transaction
SpecWs == Init /\ [][NextWs]_vars

\* --------------------------------------------------------- relation claims
\* What seek_for_l_eq returns to a transaction that starts now.
FreshSeekIn(rel, st, k) == seek_for_l_eq(rel, Tx(NextId(st)), k)
FreshSeek(k) == FreshSeekIn(relation, txs, k)

\* The commit of t would return Conflict.
DoomedIn(rel, t) == commit(rel, Tx(t)).res = "Conflict"
Doomed(t) == DoomedIn(relation, t)

\* Another transaction was the first to commit a write of k after t wrote k.
ClobberedOn(t, k) ==
    /\ k \in DOMAIN wbase[t]
    /\ Len(chist[k]) > wbase[t][k]
    /\ chist[k][wbase[t][k] + 1] # t

Clobbered(t) == \E k \in Keys : ClobberedOn(t, k)

\* t wrote a key whose newest committed version, at that time, came from a
\* transaction with a later start timestamp (a version t cannot see).
Blind(t) ==
    \E k \in DOMAIN wbase[t] :
        wbase[t][k] > 0 /\ chist[k][wbase[t][k]] > t

\* t and u have both written k, and no commit has written k since.
Racing(t, u, k) ==
    /\ t # u /\ Active(t) /\ Active(u)
    /\ k \in DOMAIN wbase[t] /\ k \in DOMAIN wbase[u]
    /\ wbase[t][k] = Len(chist[k]) /\ wbase[u][k] = Len(chist[k])

\* C1: when two transactions write a key that holds a committed tuple before
\* either commits, the first to commit gets Ok (neither is refused while
\* both are pending), the other one's commit returns Conflict, and a
\* transaction started afterwards reads the first committer's result.
C1_FirstCommitterWins ==
    \A t \in TxIds, k \in Keys :
        /\ \A u \in TxIds :
              Racing(t, u, k) /\ wbase[t][k] > 0
              /\ ~Clobbered(t) /\ ~Blind(t) => ~Doomed(t)
        /\ ClobberedOn(t, k) /\ wbase[t][k] > 0
           => /\ txs[t] # "committed"
              /\ Active(t) => Doomed(t)
              /\ FreshSeek(k) = canon[k]
              /\ FreshSeek(k) = wset[chist[k][Len(chist[k])]][k]

\* C1 witness: t and u both overwrote the same committed tuple before either
\* committed; u committed with Ok, t got Conflict, and a new transaction
\* reads what u wrote.
C1_Witness ==
    \E t \in TxIds, u \in TxIds, k \in Keys :
        /\ txs[t] = "conflict" /\ txs[u] = "committed"
        /\ k \in DOMAIN wbase[t] /\ k \in DOMAIN wbase[u]
        /\ wbase[t][k] > 0 /\ wbase[u][k] = wbase[t][k]
        /\ wset[t][k] # wset[u][k]
        /\ Len(chist[k]) = wbase[t][k] + 1
        /\ FreshSeek(k) = wset[u][k]

\* C3: two transactions may both insert a key that is absent; both inserts
\* return Ok, the first commit returns Ok, the second returns Conflict, and a
\* later transaction reads the value of the first committer.
C3_InsertRace ==
    \A t \in TxIds, k \in Keys :
        /\ \A u \in TxIds, r \in Vals :
              /\ t # u /\ Active(t) /\ Active(u)
              /\ chist[k] = <<>>
              /\ k \in DOMAIN wset[u] /\ wset[u][k] # None
              /\ k \notin DOMAIN wset[t]
              => insert(relation, Tx(t), k, r).res = "Ok"
        /\ \A u \in TxIds :
              Racing(t, u, k) /\ wbase[t][k] = 0
              /\ ~Clobbered(t) /\ ~Blind(t) => ~Doomed(t)
        /\ ClobberedOn(t, k) /\ wbase[t][k] = 0
           => /\ txs[t] # "committed"
              /\ Active(t) => Doomed(t)
              /\ FreshSeek(k) = canon[k]

\* C3 witness: t and u both inserted the absent key k, with different
\* values; u committed with Ok, t got Conflict, a new transaction reads the
\* value u inserted.
C3_Witness ==
    \E t \in TxIds, u \in TxIds, k \in Keys :
        /\ txs[t] = "conflict" /\ txs[u] = "committed"
        /\ k \in DOMAIN wbase[t] /\ k \in DOMAIN wbase[u]
        /\ wbase[t][k] = 0 /\ wbase[u][k] = 0
        /\ wset[t][k] # None /\ wset[u][k] # None
        /\ wset[t][k] # wset[u][k]
        /\ chist[k] = <<u>>
        /\ FreshSeek(k) = wset[u][k]

\* The relation as it would be had no transaction other than u written
\* anything that is still uncommitted.
Strip(rel, u) ==
    [rel EXCEPT !.values =
        [id \in DOMAIN @ |->
            SelectSeq(@[id], LAMBDA e : e.committed \/ e.ts = u)]]

\* What one step that ends transaction t must do to the reads of the others.
C2_Step(t) ==
    Active(t) /\ txs'[t] # "active" =>
        IF txs'[t] = "committed"
        THEN \A k \in Keys :
                FreshSeekIn(relation', txs', k) =
                    IF k \in DOMAIN wset[t] THEN wset[t][k] ELSE FreshSeek(k)
        ELSE /\ \A k \in Keys :
                   FreshSeekIn(relation', txs', k) = FreshSeek(k)
             /\ \A u \in TxIds \ {t}, k \in Keys :
                   seek_for_l_eq(relation', Tx(u), k) =
                       seek_for_l_eq(relation, Tx(u), k)
             /\ \A u \in (TxIds \ {t}) \cup {NextTxId} :
                   range_for_l_eq(relation', Tx(u), FullRange) =
                       range_for_l_eq(relation, Tx(u), FullRange)

\* C2: commit is all-or-nothing.  A commit that returns Conflict, and a
\* rollback, change no read of any other or later transaction, whatever keys
\* the transaction wrote; a commit that returns Ok makes every write of the
\* transaction the value a transaction started afterwards reads, and changes
\* no other key.
C2_AllOrNothing == [][\A t \in TxIds : C2_Step(t)]_vars

\* C2 witness: a transaction that wrote two keys, one of them untouched by
\* anybody else, got Conflict, and a new transaction reads neither write.
C2_Witness ==
    \E t \in TxIds, k \in Keys, j \in Keys :
        /\ txs[t] = "conflict"
        /\ k # j /\ k \in DOMAIN wset[t] /\ j \in DOMAIN wset[t]
        /\ ClobberedOn(t, k) /\ chist[j] = <<>>
        /\ wset[t][j] # None /\ FreshSeek(j) = None
        /\ FreshSeek(k) # wset[t][k]

\* C4: the writes other transactions have not committed are invisible to u:
\* its seek, insert, update_r and remove_for_l answer as they would in a
\* relation without those writes.  In particular remove_for_l of a key
\* that only an uncommitted transaction inserted returns NotFound, and insert
\* of a key whose delete is uncommitted returns Duplicate.
C4_UncommittedInvisible ==
    \A u \in TxIds : Active(u) =>
        \A k \in Keys :
            /\ seek_for_l_eq(relation, Tx(u), k) =
                   seek_for_l_eq(Strip(relation, u), Tx(u), k)
            /\ remove_for_l(relation, Tx(u), k).res =
                   remove_for_l(Strip(relation, u), Tx(u), k).res
            /\ \A r \in Vals :
                  /\ insert(relation, Tx(u), k, r).res =
                         insert(Strip(relation, u), Tx(u), k, r).res
                  /\ update_r(relation, Tx(u), k, r).res =
                         update_r(Strip(relation, u), Tx(u), k, r).res
            /\ \A t \in TxIds \ {u} :
                  Active(t) /\ k \in DOMAIN wset[t] /\ k \notin DOMAIN wset[u]
                  => /\ chist[k] = <<>> /\ wset[t][k] # None
                        => remove_for_l(relation, Tx(u), k).res = "NotFound"
                     /\ wset[t][k] = None /\ canon[k] # None
                        /\ chist[k][Len(chist[k])] <= u
                        => \A r \in Vals :
                              insert(relation, Tx(u), k, r).res = "Duplicate"

\* C4 witness: two open transactions; one has deleted a committed key and
\* inserted a key that was absent, the other has written neither and still
\* reads the committed state.
C4_Witness ==
    \E t \in TxIds, u \in TxIds, k \in Keys, j \in Keys :
        /\ t # u /\ Active(t) /\ Active(u) /\ wset[u] = <<>>
        /\ k \in DOMAIN wset[t] /\ wset[t][k] = None /\ canon[k] # None
        /\ j \in DOMAIN wset[t] /\ wset[t][j] # None /\ chist[j] = <<>>
        /\ seek_for_l_eq(relation, Tx(u), k) = canon[k]
        /\ seek_for_l_eq(relation, Tx(u), j) = None

\* C6: a transaction reads its own writes: after insert, update_r or upsert
\* of (l, r) its seek_for_l_eq(l) returns r; after remove_for_l(l) the seek
\* returns nothing and another remove_for_l(l) returns NotFound.
C6_ReadYourWrites ==
    \A t \in TxIds : Active(t) =>
        \A k \in DOMAIN wset[t] :
            /\ seek_for_l_eq(relation, Tx(t), k) = wset[t][k]
            /\ wset[t][k] = None
               => remove_for_l(relation, Tx(t), k).res = "NotFound"

\* C6 witness: an open transaction that has removed one committed key and
\* given another key a value that is not the committed one.
C6_Witness ==
    \E t \in TxIds, k \in Keys, j \in Keys :
        /\ Active(t) /\ k \in DOMAIN wset[t] /\ j \in DOMAIN wset[t]
        /\ wset[t][k] = None /\ canon[k] # None
        /\ wset[t][j] # None /\ wset[t][j] # canon[j]

\* C7: a committed insert is read by every later transaction; once a later
\* transaction has removed the key and committed, the key reads as absent,
\* and a new insert of it succeeds, commits, and is read in turn.
C7_RoundTrip ==
    \A k \in Keys :
        /\ FreshSeek(k) = canon[k]
        /\ LET n == NextTxId
               rm == remove_for_l(relation, Tx(n), k)
               c1 == commit(rm.rel, Tx(n))
           IN  canon[k] # None =>
                  /\ rm.res = "Ok" /\ c1.res = "Ok"
                  /\ seek_for_l_eq(c1.rel, Tx(n + 1), k) = None
        /\ \A r \in Vals :
              LET n == NextTxId
                  ins == insert(relation, Tx(n), k, r)
                  c2 == commit(ins.rel, Tx(n))
              IN  canon[k] = None =>
                     /\ ins.res = "Ok" /\ c2.res = "Ok"
                     /\ seek_for_l_eq(c2.rel, Tx(n + 1), k) = Some(r)

\* C7 witness: a key that was inserted and committed, removed and committed,
\* and inserted and committed again, by three transactions.
C7_Witness ==
    \E k \in Keys :
        /\ Len(chist[k]) = 3
        /\ wset[chist[k][1]][k] # None
        /\ wset[chist[k][2]][k] = None
        /\ wset[chist[k][3]][k] # None
        /\ FreshSeek(k) = wset[chist[k][3]][k]

\* What the commit of t must do when t and u have written different keys and
\* neither has been overtaken by a third party.
C8_Step(t, u) ==
    /\ t # u /\ Active(t) /\ Active(u)
    /\ wset[t] # <<>> /\ wset[u] # <<>>
    /\ DOMAIN wset[t] \cap DOMAIN wset[u] = {}
    /\ ~Doomed(t) /\ ~Doomed(u)
    /\ txs'[t] \in {"committed", "conflict"}
    => /\ txs'[t] = "committed"
       /\ ~DoomedIn(relation', u)
       /\ \A k \in Keys :
             FreshSeekIn(relation', txs', k) =
                 IF k \in DOMAIN wset[t] THEN wset[t][k] ELSE FreshSeek(k)

\* C8: two concurrent transactions that wrote different keys both commit
\* with Ok, whichever commits first: the commit of one does not make the
\* commit of the other fail, and a later transaction reads the writes of both.
C8_DisjointWritersCommit ==
    /\ [][\A t \in TxIds, u \in TxIds : C8_Step(t, u)]_vars
    /\ [](\A k \in Keys : FreshSeek(k) = canon[k])

\* C8 witness: two transactions that wrote different keys while both were
\* open (the later one wrote first) have both committed, and a new
\* transaction reads both writes.
C8_Witness ==
    \E t \in TxIds, u \in TxIds, k \in Keys, j \in Keys :
        /\ t < u /\ k # j
        /\ txs[t] = "committed" /\ txs[u] = "committed"
        /\ chist[j] = <<u>> /\ chist[k] = <<t>>
        /\ wbase[t] = (k :> 0) /\ wbase[u] = (j :> 0)
        /\ relation.l_index[j] < relation.l_index[k]
        /\ FreshSeek(k) = wset[t][k] /\ FreshSeek(j) = wset[u][j]
        /\ wset[t][k] # None /\ wset[u][j] # None

\* C5: a transaction that has written nothing gets from every scan of the
\* relation the result of its first scan, whatever other transactions
\* commit in between.
C5_SnapshotStable ==
    \A t \in TxIds :
        Active(t) /\ snap[t] # None /\ wset[t] = <<>>
        => range_for_l_eq(relation, Tx(t), FullRange) = snap[t][1]

\* ----------------------------------------------------------- SlotBox claims
\* The slot a tuple id designates, when the id designates a slot in use.
SlotOf(id) == box.pool[id[1]].slots[id[2]]

\* The handles of allocation g designate the slot that allocation filled, and
\* the slot counts them.
HandlesCounted(g) ==
    /\ get(box, handles[g].id)
    /\ SlotOf(handles[g].id).serial = g
    /\ SlotOf(handles[g].id).refcount = handles[g].n

\* C9: after any sequence of allocate, clone, drop and update, every tuple
\* that has a live handle still has the slot its allocation filled (the slot
\* was not removed, nor given to another tuple), and the refcount of every
\* slot in use is the number of live handles of its tuple.
C9_RefcountIsLiveHandles ==
    /\ \A g \in 1..Len(handles) : Live(g) => HandlesCounted(g)
    /\ \A pid \in DOMAIN box.pool : \A i \in UsedSlots(box.pool[pid]) :
          LET slot == box.pool[pid].slots[i]
          IN  /\ slot.serial \in 1..Len(handles)
              /\ handles[slot.serial].id = <<pid, i>>
              /\ handles[slot.serial].n = slot.refcount

\* A tuple was dropped to zero and removed, its slot went to a later tuple,
\* and that tuple has been cloned.
C9_Witness ==
    \E g \in 1..Len(handles) : \E h \in (g + 1)..Len(handles) :
        /\ handles[g].n = 0
        /\ handles[h].id = handles[g].id
        /\ handles[h].n = 2
        /\ SlotOf(handles[h].id).refcount = 2

AllDropped ==
    /\ Len(handles) > 0
    /\ \A g \in 1..Len(handles) : handles[g].n = 0

\* C10: once every TupleRef of a workload has been dropped, used_pages() is
\* empty, no block of the pool is still allocated, and get(id) is an error
\* for every tuple id that was allocated.
C10_AllDroppedAllReleased ==
    AllDropped =>
        /\ used_pages(box) = {}
        /\ DOMAIN box.pool = {}
        /\ \A g \in 1..Len(handles) : ~get(box, handles[g].id)

\* The page is among the pages of the PageSpace of the relation, with its
\* free bytes as the recorded available space.
Republished(inner, rel, pid) ==
    /\ rel \in DOMAIN inner.available_page_space
    /\ \E i \in 1..Len(inner.available_page_space[rel].block_ids) :
          /\ inner.available_page_space[rel].block_ids[i] = pid
          /\ inner.available_page_space[rel].available[i]
                = available_content_bytes(inner.pool[pid])

\* The drop of the last handle of allocation g removes the slot, and the page
\* (unless it was released as empty) is in its relation's PageSpace with its
\* new free bytes.
C11_Step(g) ==
    (Live(g) /\ handles[g].n = 1 /\ handles'[g].n = 0) =>
        /\ ~get(box', handles[g].id)
        /\ page_for(box', handles[g].id[1]) =>
              Republished(box', handles[g].rel, handles[g].id[1])

\* C11: whenever a dncount brings the refcount of a slot to zero, the slot is
\* removed and the entry of its page in the PageSpace of its relation is set
\* to the new free bytes of the page, for a page of any relation and for a
\* page that had been filled completely.
C11_FreedSpaceRepublished ==
    [][\A g \in 1..Len(handles) : C11_Step(g)]_vars

\* The relations whose PageSpace lists the page.
RegisteredTo(pid) ==
    {rel \in DOMAIN box.available_page_space :
        pid \in PageSpace_pages(box.available_page_space[rel])}

\* No page is in the PageSpace of two relations, nor twice in one.
OnePageSpacePerPage ==
    \A pid \in 0..VirtPages :
        /\ Cardinality(RegisteredTo(pid)) <= 1
        /\ \A rel \in RegisteredTo(pid) :
              Cardinality({i \in 1..Len(box.available_page_space[rel].block_ids)
                  : box.available_page_space[rel].block_ids[i] = pid}) = 1

\* C12: no page is in the PageSpace of two relations, and every tuple
\* allocated for a relation lies on a page registered to that relation.
C12_TuplesOnRegisteredPages ==
    /\ OnePageSpacePerPage
    /\ \A g \in 1..Len(handles) : Live(g) =>
          RegisteredTo(handles[g].id[1]) = {handles[g].rel}

\* ---------------------------------------------------------------- VM claims
\* The task is running and its next call of exec executes an opcode.
Running ==
    /\ task.status = "running"
    /\ vm.stack # <<>>
    /\ Len(vm.stack) < task.max_stack_depth
    /\ vm.tick_count < task.max_ticks

\* The opcode the top activation executes next.
NextOp(state) == Programs[top(state).verb_name][top(state).pc + 1]

AtOp(state, names) ==
    /\ state.stack # <<>>
    /\ top(state).pc + 1 \in 1..Len(Programs[top(state).verb_name])
    /\ NextOp(state).op \in names

\* One turn of the opcode loop on the state.
Turn(state) == exec_op(state, Programs[top(state).verb_name], Verbs)

\* The next opcode of the top activation raises the error code: the verb has
\* the 'd' flag and reads its variable before it was set.
Raises(state, code) ==
    /\ AtOp(state, {"GPush"})
    /\ top(state).env = None
    /\ top(state).debug
    /\ code = "E_VARNF"

Errors == {"E_VARNF", "E_TYPE", "E_MAXREC"}

\* One of the arms of the try/except of the Catch handler h of a lists the
\* code, or lists nothing.
TryLists(a, h, code) ==
    \E j \in (h.valstack_pos - h.arg + 1)..h.valstack_pos :
        /\ j \in 1..Len(a.valstack)
        /\ \/ a.valstack[j].t # "list"
           \/ contains(a.valstack[j], v_err(code))

\* Activation a has a try/except with an arm for the code.
Guarded(a, code) ==
    \E k \in 1..Len(a.handler_stack) :
        /\ a.handler_stack[k].handler_type = "Catch"
        /\ TryLists(a, a.handler_stack[k], code)

\* The arm of the CatchLabel handler h of a lists the code (or lists
\* nothing, and catches any).
ArmGuards(a, h, code) ==
    /\ h.handler_type = "CatchLabel"
    /\ h.valstack_pos \in 1..Len(a.valstack)
    /\ \/ a.valstack[h.valstack_pos].t # "list"
       \/ contains(a.valstack[h.valstack_pos], v_err(code))

\* The innermost try/except of a with an arm for the code, as the place of
\* its Catch handler in the handler stack, and the first of its arms that
\* lists the code.
InnerTry(a, code) ==
    Max({k \in 1..Len(a.handler_stack) :
            /\ a.handler_stack[k].handler_type = "Catch"
            /\ TryLists(a, a.handler_stack[k], code)})

InnerArm(a, code) ==
    LET k == InnerTry(a, code)
    IN  Min({i \in (k - a.handler_stack[k].arg)..(k - 1) :
                i >= 1 /\ ArmGuards(a, a.handler_stack[i], code)})

\* C13: when verb B, called from verb A, raises an error that B has no
\* handler for while A has a try/except listing it, the raise pops B and
\* goes on in A at the label of the except arm with the error value on top of
\* A's value stack.
C13_CallerCatches ==
    \A code \in Errors :
        (/\ Running
         /\ Len(vm.stack) >= 2
         /\ Raises(vm, code)
         /\ ~Guarded(top(vm), code)
         /\ Guarded(vm.stack[Len(vm.stack) - 1], code))
        => LET A == vm.stack[Len(vm.stack) - 1]
               out == Turn(vm)
           IN  /\ out.res = "More"
               /\ Len(out.state.stack) = Len(vm.stack) - 1
               /\ top(out.state).pc
                     = A.handler_stack[InnerArm(A, code)].arg
               /\ top(out.state).valstack # <<>>
               /\ peek_top(top(out.state)) = v_err(code)

\* The values a has below the code lists of its innermost try/except with an
\* arm for the code, and the handlers it has below the handlers of that try.
BelowTry(a, code) ==
    LET k == InnerTry(a, code)
        h == a.handler_stack[k]
    IN  [valstack |-> SubSeq(a.valstack, 1, h.valstack_pos - h.arg),
         handler_stack |-> SubSeq(a.handler_stack, 1, k - h.arg - 1)]

\* C14: a raise that an arm of the innermost try/except of the activation
\* matches goes on at the label of that arm, with the value stack cut back
\* to what it held before the try and the error value pushed on it, and with
\* the handlers of the enclosing try statements all in place.
C14_InnerExceptCatches ==
    \A code \in Errors :
        (Running /\ Raises(vm, code) /\ Guarded(top(vm), code))
        => LET a == top(vm)
               out == Turn(vm)
               b == top(out.state)
           IN  /\ out.res = "More"
               /\ Len(out.state.stack) = Len(vm.stack)
               /\ b.pc = a.handler_stack[InnerArm(a, code)].arg
               /\ b.valstack
                     = Append(BelowTry(a, code).valstack, v_err(code))
               /\ b.handler_stack = BelowTry(a, code).handler_stack

\* The activation is inside the body of a try/finally: the label of the
\* newest Finally handler, when it has one.
InFinally(a) ==
    \E k \in 1..Len(a.handler_stack) :
        a.handler_stack[k].handler_type = "Finally"

FinallyLabel(a) ==
    a.handler_stack[Max({k \in 1..Len(a.handler_stack) :
                            a.handler_stack[k].handler_type = "Finally"})].arg

\* The reason codes that only an unwinding pushes (EndFinally pushes 0).
UnwindCodes ==
    {FINALLY_REASON_UNCAUGHT, FINALLY_REASON_RETURN, FINALLY_REASON_EXIT}

\* C15: a return inside the body of a try/finally runs the finally block,
\* and a finally block that an unwinding entered does not go on with the
\* code after it at Continue: the unwinding is taken up again.
C15_FinallyResumesReason ==
    /\ (Running /\ AtOp(vm, {"Return", "Return0", "Done"})
           /\ InFinally(top(vm)))
       => LET out == Turn(vm)
          IN  /\ out.res = "More"
              /\ Len(out.state.stack) = Len(vm.stack)
              /\ top(out.state).pc = FinallyLabel(top(vm))
    /\ (Running /\ AtOp(vm, {"Continue"})
           /\ top(vm).valstack # <<>>
           /\ peek_top(top(vm)).t = "int"
           /\ peek_top(top(vm)).n \in UnwindCodes)
       => Turn(vm).res # "continue"

\* A call of exec has been made.
Called == last.res # "none"

\* C16: a call of exec with the tick limit tick_slice executes no more
\* opcodes than the limit leaves (at most tick_slice of them), counts each
\* of them in tick_count, and the task of `while (1) endwhile` never
\* completes: run on, it ends with AbortLimit(Ticks) when max_ticks opcodes
\* have been executed.
C16_TickBudget ==
    /\ Called =>
          /\ last.ran <= last.tick_slice - last.ticks
          /\ last.ran <= last.tick_slice
          /\ vm.tick_count = last.ticks + last.ran
    /\ task.verb = "loop" =>
          /\ task.status \in {"running", "AbortLimit"}
          /\ vm.tick_count <= task.max_ticks
          /\ LET end == run_task(task, vm)
             IN  /\ end.task.status = "AbortLimit"
                 /\ end.vm.tick_count = task.max_ticks

\* exec ran a whole budget of `while (1) endwhile` in one call and returned
\* More.
C16_Witness ==
    /\ task.verb = "loop"
    /\ last.res = "More"
    /\ last.ticks = 0
    /\ last.tick_slice = task.max_ticks
    /\ last.ran = last.tick_slice

\* C16 as stated: and exec returns More only when the limit is reached.
C16_MoreOnlyAtLimit ==
    /\ C16_TickBudget
    /\ (Called /\ last.res = "More") => vm.tick_count >= last.tick_slice

\* The next call of exec raises the error code: by its next opcode, or as
\* E_MAXREC because the stack is max_stack_depth deep.
TooDeep ==
    /\ task.status = "running"
    /\ vm.tick_count < task.max_ticks
    /\ Len(vm.stack) >= task.max_stack_depth

RaisesNow(code) ==
    \/ Running /\ Raises(vm, code)
    \/ TooDeep /\ code = "E_MAXREC"

\* No activation of the stack has a try/except with an arm for the code.
Unguarded(state, code) ==
    \A f \in 1..Len(state.stack) : ~Guarded(state.stack[f], code)

\* C17: when an error is raised that no activation of the stack has a
\* handler for, the task ends with Exception(Uncaught) for that error, with
\* an entry of the stack list and a line of the backtrace for every
\* activation, the line "(End of traceback)" after them, and no activation
\* left on the stack.
C17_UncaughtEndsTask ==
    \A code \in Errors :
        (RaisesNow(code) /\ Unguarded(vm, code))
        => LET end == run_task(task, vm)
               why == end.task.why
           IN  /\ end.task.status = "CompleteException"
               /\ why.kind = "Uncaught"
               /\ why.code = code
               /\ Len(why.stack) = Len(vm.stack)
               /\ Len(why.backtrace) = Len(vm.stack) + 1
               /\ why.backtrace[Len(why.backtrace)].text
                     = "(End of traceback)"
               /\ end.vm.stack = <<>>

\* The value the return opcode op returns from activation a.
Returned(a, op) ==
    CASE op.op = "Return" -> peek_top(a)
      [] op.op = "Return0" -> v_int(0)
      [] op.op = "Done" -> v_none

\* The next opcode is a return outside every try/finally (and Return finds
\* its value on the stack).
ReturnsPlainly ==
    /\ Running
    /\ AtOp(vm, {"Return", "Return0", "Done"})
    /\ ~InFinally(top(vm))
    /\ NextOp(vm).op = "Return" => top(vm).valstack # <<>>

\* C18: Return, Return0 and Done outside a try/finally pop the current
\* activation and no other: from the last activation the result is
\* Complete(v), v the value returned (0 for Return0, none for Done); else v
\* is pushed on the value stack of the caller, nothing else of the caller
\* or of the activations below it changes, and the result is More.
C18_ReturnPopsOne ==
    ReturnsPlainly
    => LET n == Len(vm.stack)
           v == Returned(top(vm), NextOp(vm))
           out == Turn(vm)
       IN  IF n = 1
           THEN /\ out.res = "Complete"
                /\ out.value = v
                /\ out.state.stack = <<>>
           ELSE /\ out.res = "More"
                /\ out.state.stack
                      = [SubSeq(vm.stack, 1, n - 1) EXCEPT
                            ![n - 1].valstack = Append(@, v)]

\* `return 5` of a called verb, which leaves 5 on the stack of its caller.
C18_Witness ==
    /\ ReturnsPlainly
    /\ Len(vm.stack) = 2
    /\ NextOp(vm).op = "Return"
    /\ Turn(vm).res = "More"
    /\ Len(Turn(vm).state.stack) = 1
    /\ peek_top(top(Turn(vm).state)) = v_int(5)

\* C19: Exit{stack, label} with no finally handler on the way leaves the
\* value stack of the activation at the depth `stack`, the values below
\* that depth as they were, moves the program counter to the label, pops no
\* activation, and gives More.
C19_ExitKeepsStack ==
    (/\ Running
     /\ AtOp(vm, {"Exit"})
     /\ ~InFinally(top(vm))
     /\ Len(top(vm).valstack) >= NextOp(vm).stack)
    => LET a == top(vm)
           op == NextOp(vm)
           out == Turn(vm)
       IN  /\ out.res = "More"
           /\ Len(out.state.stack) = Len(vm.stack)
           /\ top(out.state).pc = op.label
           /\ top(out.state).valstack = SubSeq(a.valstack, 1, op.stack)

\* C20: a call of exec on a stack of max_stack_depth activations or more
\* runs no opcode and raises E_MAXREC: with no handler for it the task ends
\* with Exception(Uncaught) for E_MAXREC, and a try/except of the calling
\* verb that lists E_MAXREC catches it (the new activation is popped and the
\* caller goes on at the arm with the error on its stack).
C20_MaxRecursion ==
    /\ (Called /\ last.depth >= task.max_stack_depth) => last.ran = 0
    /\ (Called /\ last.ran > 0) => last.depth < task.max_stack_depth
    /\ (TooDeep /\ Unguarded(vm, "E_MAXREC"))
       => LET turn == exec_interpreter(task, vm, task.max_ticks)
          IN  /\ turn.task.status = "CompleteException"
              /\ turn.task.why.code = "E_MAXREC"
              /\ turn.last.ran = 0
    /\ (TooDeep /\ Len(vm.stack) >= 2
           /\ Guarded(vm.stack[Len(vm.stack) - 1], "E_MAXREC"))
       => LET A == vm.stack[Len(vm.stack) - 1]
              run == exec(task.max_stack_depth, vm, Programs,
                          task.max_ticks)
          IN  /\ run.ran = 0
              /\ run.out.res = "More"
              /\ Len(run.out.state.stack) = Len(vm.stack) - 1
              /\ top(run.out.state).pc
                    = A.handler_stack[InnerArm(A, "E_MAXREC")].arg
              /\ top(run.out.state).valstack # <<>>
              /\ peek_top(top(run.out.state)) = v_err("E_MAXREC")

\* The next opcode of the top activation calls push_error(code): it reads
\* the variable of the verb before it was set.
PushesError(state, code) ==
    /\ AtOp(state, {"GPush"})
    /\ top(state).env = None
    /\ code = "E_VARNF"

\* The topmost activation of the stack with a try/except for the code.
HandlerFrame(state, code) ==
    Max({f \in 1..Len(state.stack) : Guarded(state.stack[f], code)})

\* C21: push_error(code) in a verb without the d flag pushes the error
\* value on the value stack of the activation and gives More, with every
\* handler and activation in place; in a verb with the d flag it raises the
\* error: the activations above the one with a matching handler are popped
\* and that one goes on at the arm of the handler with the error on its
\* stack, or, with no matching handler, the task ends as uncaught.
C21_PushErrorByDebugFlag ==
    \A code \in Errors :
        (Running /\ PushesError(vm, code))
        => LET a == top(vm)
               out == Turn(vm)
           IN  IF ~a.debug
               THEN /\ out.res = "More"
                    /\ out.state.stack
                          = [vm.stack EXCEPT
                                ![Len(vm.stack)].pc = a.pc + 1,
                                ![Len(vm.stack)].valstack
                                    = Append(a.valstack, v_err(code))]
               ELSE IF Unguarded(vm, code)
               THEN LET end == run_task(task, vm)
                    IN  /\ end.task.status = "CompleteException"
                        /\ end.task.why.kind = "Uncaught"
                        /\ end.task.why.code = code
               ELSE LET f == HandlerFrame(vm, code)
                        A == vm.stack[f]
                    IN  /\ out.res = "More"
                        /\ Len(out.state.stack) = f
                        /\ top(out.state).pc
                              = A.handler_stack[InnerArm(A, code)].arg
                        /\ top(out.state).valstack # <<>>
                        /\ peek_top(top(out.state)) = v_err(code)

\* ------------------------------------------------ failed relation operations
\* The commit of t returns Ok and publishes nothing.
SilentCommit(t) ==
    LET c == commit(relation, Tx(t))
    IN  /\ c.res = "Ok"
        /\ c.rel.values = relation.values
        /\ c.rel.l_index = relation.l_index
        /\ \A u \in TxIds \ {t} : Active(u) => DoomedIn(c.rel, u) = Doomed(u)

\* C22: an insert that returns Duplicate, and a remove_for_l or update_r
\* that returns NotFound, leave the tuples, the indexes and the commit sets
\* of the relation as they were; a transaction all of whose operations
\* failed commits with Ok, and its commit changes no tuple and no other
\* transaction's commit result.
C22_FailedOpsLeaveNoTrace ==
    \A t \in TxIds :
        Active(t) =>
           /\ \A l \in Keys, r \in Vals :
                 LET o == insert(relation, Tx(t), l, r)
                 IN  o.res = "Duplicate" => o.rel = relation
           /\ \A l \in Keys :
                 LET o == remove_for_l(relation, Tx(t), l)
                 IN  o.res = "NotFound" => o.rel = relation
           /\ \A l \in Keys, r \in Vals :
                 LET o == update_r(relation, Tx(t), l, r)
                 IN  o.res = "NotFound" => o.rel = relation
           /\ wset[t] = <<>> => SilentCommit(t)

\* C22 witness: a transaction that has written nothing gets Duplicate from
\* an insert of a committed key and NotFound from remove_for_l and update_r
\* of a key that another open transaction has inserted, and a third
\* transaction has an update of the committed key pending.
C22_Witness ==
    \E t \in TxIds, u \in TxIds, w \in TxIds, k \in Keys, j \in Keys :
        /\ k # j /\ u # t /\ w # t
        /\ Active(t) /\ Active(u) /\ Active(w) /\ wset[t] = <<>>
        /\ canon[k] # None
        /\ insert(relation, Tx(t), k, 1).res = "Duplicate"
        /\ j \in DOMAIN wset[u] /\ wset[u][j] # None /\ canon[j] = None
        /\ remove_for_l(relation, Tx(t), j).res = "NotFound"
        /\ update_r(relation, Tx(t), j, 1).res = "NotFound"
        /\ k \in DOMAIN wset[w] /\ wset[w][k] # None /\ ~Doomed(w)

\* The number of times the transaction's commit set names the tuple of k.
Marks(t, k) ==
    IF t \in DOMAIN relation.commit_sets /\ k \in DOMAIN relation.l_index
    THEN Cardinality({i \in 1..Len(relation.commit_sets[t]) :
                        relation.commit_sets[t][i] = relation.l_index[k]})
    ELSE 0

\* C23: upsert(l, r) returns Ok whether or not the transaction sees a row
\* for l, and after it the transaction reads r for l; a second upsert(l, r)
\* changes nothing that can be observed: what every transaction reads by key
\* and by value, the secondary index, the result and the effect of the
\* transaction's commit, and the number of stored tuples.
C23_UpsertIdempotent ==
    \A t \in TxIds, l \in Keys, r \in Vals :
        Active(t) =>
           LET tx == Tx(t)
               one == upsert(relation, tx, l, r)
               two == upsert(one.rel, tx, l, r)
               c1 == commit(one.rel, tx)
               c2 == commit(two.rel, tx)
           IN  /\ one.res = "Ok" /\ two.res = "Ok"
               /\ seek_for_l_eq(one.rel, tx, l) = Some(r)
               /\ \A u \in TxIds, k \in Keys :
                     seek_for_l_eq(two.rel, Tx(u), k)
                        = seek_for_l_eq(one.rel, Tx(u), k)
               /\ two.rel.r_index = one.rel.r_index
               /\ one.rel.r_index # None =>
                     \A u \in TxIds, v \in Vals :
                        seek_for_r_eq(two.rel, Tx(u), v)
                           = seek_for_r_eq(one.rel, Tx(u), v)
               /\ c2.res = c1.res
               /\ c2.rel.values = c1.rel.values
               /\ DOMAIN two.rel.values = DOMAIN one.rel.values
               /\ two.rel.l_index = one.rel.l_index
               /\ two.rel.next_tuple_id = one.rel.next_tuple_id

\* C23 witness: a transaction of a relation with a secondary index has
\* applied upsert to a key it saw a committed row of and has removed and
\* written the row again since; the secondary index names the tuple under
\* the new value, and the transaction sees no row for the other key.
C23_Witness ==
    \E t \in TxIds, k \in Keys, j \in Keys, r \in Vals :
        /\ Active(t) /\ relation.r_index # None
        /\ canon[k] # None /\ canon[k] # Some(r)
        /\ k \in DOMAIN wset[t] /\ wset[t][k] = Some(r)
        /\ Marks(t, k) >= 4
        /\ relation.l_index[k] \in relation.r_index[1][r]
        /\ seek_for_l_eq(relation, Tx(t), k) = Some(r)
        /\ seek_for_l_eq(relation, Tx(t), j) = None
        /\ upsert(relation, Tx(t), j, r).res = "Ok"

\* C24: in a relation with a secondary index, whatever operations the
\* transactions have made, seek_for_r_eq(tx, r) is the set of the keys for
\* which tx reads the value r.
C24_SecondaryIndexExact ==
    relation.r_index # None =>
       \A t \in TxIds, r \in Vals :
          Active(t) =>
             seek_for_r_eq(relation, Tx(t), r)
                = {l \in Keys : seek_for_l_eq(relation, Tx(t), l) = Some(r)}

\* ------------------------------------------------- SlotBox workloads
\* The loop of fill_until_full of the tests with tuples of one size:
\* allocate until a call fails; ids are the tuples stored, res the result
\* of the call that ended the loop. The ends the loop may come to.
RECURSIVE fill_until_full(_, _, _, _)
fill_until_full(inner, size, relation_id, ids) ==
    UNION {IF out.res = "Ok"
           THEN fill_until_full(out.inner, size, relation_id,
                                Append(ids, out.id))
           ELSE {[inner |-> out.inner, ids |-> ids, res |-> out.res]} :
              out \in allocate(inner, size, relation_id,
                               Len(handles) + Len(ids) + 1)}

\* tuples.clear(): the one TupleRef of each tuple is dropped, in order.
RECURSIVE drop_all(_, _)
drop_all(inner, ids) ==
    IF ids = <<>> THEN inner
    ELSE CHOOSE end \in
             {drop_all(out.inner, Tail(ids)) :
                 out \in {dncount(inner, ids[1])}} : TRUE

NoneLive == \A g \in 1..Len(handles) : ~Live(g)

\* C25: a box is filled with tuples of one size until allocate returns
\* BoxFull, every handle is dropped, and the box is filled again: both
\* fills end with BoxFull (no other error, no panic) and the second stores
\* at least as many tuples as the first.
C25_RefillAfterEmpty ==
    (boxstate = "ready" /\ NoneLive) =>
       \A size \in Sizes, rel \in RelIds :
          \A first \in fill_until_full(box, size, rel, <<>>) :
          \A second \in fill_until_full(drop_all(first.inner, first.ids),
                                         size, rel, <<>>) :
             /\ first.res = "BoxFull"
             /\ second.res = "BoxFull"
             /\ Len(second.ids) >= Len(first.ids)

\* The tuple of allocation g has lost every handle.
Freed(g) == g \in 1..Len(handles) /\ handles[g].n = 0

\* The bytes a slot holds are those written by the allocation whose serial
\* number it carries: the handle of allocation g reads what it was
\* allocated with as long as the slot of its id is in use with serial g.
ReadsOwnBytes(g) ==
    /\ get(box, handles[g].id)
    /\ SlotOf(handles[g].id).serial = g

\* C26 as amended: whatever allocations (also onto a new page), frees and
\* re-allocations into freed space have happened, every live TupleRef
\* reads the bytes of its own allocation, and get(id) fails for the id of
\* every freed tuple unless a later allocation has taken the slot of that
\* id, in which case the id resolves to the later, live tuple.
C26_LiveBytesKept ==
    /\ \A g \in 1..Len(handles) : Live(g) => ReadsOwnBytes(g)
    /\ \A g \in 1..Len(handles) :
          (Freed(g) /\ get(box, handles[g].id)) =>
             \E h \in (g + 1)..Len(handles) :
                /\ handles[h].id = handles[g].id
                /\ Live(h) /\ ReadsOwnBytes(h)

\* C26 witness: a tuple that fills the first page is live and reads its
\* bytes; a tuple that went to a second page was freed; a later tuple was
\* allocated into the freed space, under the id of the freed one.
C26_Witness ==
    \E g, f, h \in 1..Len(handles) :
        /\ g < f /\ f < h
        /\ Live(g) /\ Freed(f) /\ Live(h)
        /\ handles[f].id[1] # handles[g].id[1]
        /\ handles[h].id = handles[f].id
        /\ ReadsOwnBytes(g) /\ ReadsOwnBytes(h)

\* C26: every live TupleRef reads the bytes of its own allocation, and
\* get(id) fails for the id of every freed tuple.
C26_FreedIdsFail ==
    /\ \A g \in 1..Len(handles) : Live(g) => ReadsOwnBytes(g)
    /\ \A g \in 1..Len(handles) : Freed(g) => ~get(box, handles[g].id)

\* C27: update through a live handle with a value of the stored length
\* returns None and leaves the box (the tuple id, its refcount, every
\* PageSpace entry) as it was; with a value of another length it returns
\* Some(handle) of a newly allocated tuple, the call having removed the old
\* slot.
C27_UpdateInPlaceOrMoved ==
    \A g \in 1..Len(handles), new_len \in Sizes :
        (boxstate = "ready" /\ Live(g)) =>
           LET out == update(box, handles[g].rel, handles[g].id, new_len)
           IN  IF SlotOf(handles[g].id).len = new_len
               THEN out = "Ok(None)"
               ELSE out = "Ok(Some)"

\* The id of allocation g is stale: its tuple was freed and no later
\* allocation has been given the same id.
Stale(g) ==
    /\ Freed(g)
    /\ \A h \in (g + 1)..Len(handles) : handles[h].id # handles[g].id

\* C28: called with the id of a freed tuple, get, upcount, dncount, update
\* and update_with return TupleNotFound (no panic); the second free (the
\* dncount) and the failed upcount leave every tuple and every PageSpace
\* entry as they were.
C28_StaleIdIsTupleNotFound ==
    \A g \in 1..Len(handles) :
        (boxstate = "ready" /\ Stale(g)) =>
           LET id == handles[g].id
           IN  /\ ~get(box, id)
               /\ ~upcount(box, id).ok /\ upcount(box, id).inner = box
               /\ ~dncount(box, id).ok /\ dncount(box, id).inner = box
               /\ \A rel \in RelIds, new_len \in Sizes :
                     update(box, rel, id, new_len) = "TupleNotFound"
               /\ update_with(box, id) = "TupleNotFound"

\* ------------------------------------------------------------ lock claims
\* The thread holds a lock of some page.
HoldsPage(t) ==
    \E p \in Pages : locks.page[p].writer = t \/ t \in locks.page[p].readers

\* Some threads wait for locks that only threads among them can release.
Deadlocked ==
    \E S \in SUBSET Threads \ {{}} : \A t \in S : WaitsFor(t) \cap S # {}

\* C29: the locks are taken in the order buffer pool, page, inner mutex:
\* no thread asks for a page lock while it holds the inner mutex of the
\* SlotBox, nor for the lock of the pool while it holds a page lock or the
\* inner mutex; and no set of threads in allocate, get, update and dncount
\* calls ever waits for one another.
C29_LockOrderNoDeadlock ==
    /\ \A t \in Threads :
          StepOf(t) \in {"read", "write"} => locks.inner # t
    /\ \A t \in Threads :
          StepOf(t) = "pool" => locks.inner # t /\ ~HoldsPage(t)
    /\ ~Deadlocked

\* ------------------------------------------------------- scheduler claims
\* C30: a task whose commit met a conflict is running again under a new,
\* open transaction, or has completed after a retry, or - the retries
\* being used up - has ended with an uncaught exception: the conflict does
\* not end the task loop by a panic, and the task is left with a final
\* commit or rollback.
C30_ConflictRetried ==
    \A k \in TaskIds :
        tasks[k].conflicts > 0 =>
           /\ tasks[k].status # "panicked"
           /\ \/ tasks[k].status = "running" /\ tasks[k].tx = "open"
              \/ tasks[k].status \in {"complete", "removed"}
                    /\ tasks[k].tx = "committed"
              \/ tasks[k].status \in {"exception", "removed"}
                    /\ tasks[k].tx = "rolledback"

\* ------------------------------------------------------------- C31
\* The opcode the machine executed found the values vs on top of the value
\* stack (the last one topmost).
Executed(names) ==
    /\ machine.op \in names
    /\ Len(machine.before) >= Arity(machine.op)

Operand(k) == machine.before[Len(machine.before) - k]

\* The opcode yielded the error: it is the value on top of the stack of a
\* verb without the 'd' flag, and it is raised in a verb with the flag.
Yielded(code) ==
    IF machine.state.stack = <<>> \/ machine.res = "Exception"
    THEN machine.res = "Exception" /\ machine.code = code
    ELSE /\ machine.res \in {"More", "continue"}
         /\ top(machine.state).valstack # <<>>
         /\ peek_top(top(machine.state)) = v_err(code)

\* C31: Div or Mod whose right operand is the integer 0 yields E_DIV, pushed
\* or raised in a verb with the 'd' flag, and does not panic, whatever the
\* left operand is.
C31_DivModByZeroIsEDiv ==
    Executed({"Div", "Mod"}) /\ Operand(0) = v_int(0)
        => machine.res # "panic" /\ Yielded("E_DIV")

\* ------------------------------------------------------------- C32
\* The opcode gave the error: raised, or left as the value on top.
Gave(code) ==
    \/ machine.res = "Exception" /\ machine.code = code
    \/ /\ machine.res \in {"More", "continue"}
       /\ machine.state.stack # <<>>
       /\ top(machine.state).valstack # <<>>
       /\ peek_top(top(machine.state)) = v_err(code)

\* The opcode went on with the value v in the place of its operands.
Replaced(v) ==
    /\ machine.res = "continue"
    /\ top(machine.state).valstack =
          Append(SubSeq(machine.before, 1,
                        Len(machine.before) - Arity(machine.op)), v)

\* The sequence elems with its i-th element replaced by v.
WithElem(elems, i, v) == [elems EXCEPT ![i] = v]

\* C32: for a list or string of length n and an integer index i, Ref gives
\* the i-th element and IndexSet the base with its i-th element replaced
\* exactly when 1 <= i <= n; any other integer index gives E_RANGE, an index
\* that is no integer or a base that is neither list nor string gives E_TYPE,
\* and nothing panics. (For an index below 1 into a base that cannot be
\* indexed either error is accepted, and so is any error for a string
\* element that is not a string of one character.)
C32_IndexInRangeOrError ==
    Executed({"Ref", "IndexSet"}) =>
        LET is_ref == machine.op = "Ref"
            idx == IF is_ref THEN Operand(0) ELSE Operand(1)
            base == IF is_ref THEN Operand(1) ELSE Operand(2)
            value == Operand(0)
            n == seq_len(base)
        IN  /\ machine.res # "panic"
            /\ CASE idx.t # "int" -> Gave("E_TYPE")
                 [] base.t \notin {"str", "list"} ->
                        Gave("E_TYPE") \/ (idx.n < 1 /\ Gave("E_RANGE"))
                 [] idx.n \notin 1..n -> Gave("E_RANGE")
                 [] is_ref /\ base.t = "list" ->
                        Replaced(Elems(base)[idx.n])
                 [] is_ref -> Replaced(v_string(<<Elems(base)[idx.n]>>))
                 [] base.t = "list" ->
                        Replaced(v_list(WithElem(Elems(base), idx.n, value)))
                 [] value.t = "str" /\ seq_len(value) = 1 ->
                        Replaced(v_string(WithElem(Elems(base), idx.n,
                                                   Elems(value)[1])))
                 [] OTHER -> machine.res \in {"More", "Exception"}

\* ------------------------------------------------------------- C33
\* The two integer operands of the opcode, or its one.
IntOperands ==
    /\ Executed({"Add", "Sub", "Mul", "UnaryMinus"})
    /\ \A k \in 0..(Arity(machine.op) - 1) : Operand(k).t = "int"

\* The result of the opcode on integers without bound.
Mathematical ==
    CASE machine.op = "Add" -> Operand(1).n + Operand(0).n
      [] machine.op = "Sub" -> Operand(1).n - Operand(0).n
      [] machine.op = "Mul" -> Operand(1).n * Operand(0).n
      [] machine.op = "UnaryMinus" -> 0 - Operand(0).n

\* C33: Add, Sub, Mul and UnaryMinus on integers wrap on overflow: the
\* result is the mathematical result modulo 2^IntBits in two's complement,
\* and the opcode neither panics nor gives an error value.
C33_IntegerOverflowWraps ==
    IntOperands => Replaced(v_int(wrap(Mathematical)))

\* ------------------------------------------------------------- C34
\* C34: every call on the world state returns a result, a value or an error
\* kind, and none aborts the process, also when it is made after commit or
\* rollback has completed and the database side of the mailbox is gone.
C34_WorldStateNeverAborts ==
    \A i \in 1..Len(ws.log) :
        ws.log[i].result \in {"Ok", "Err", "Success", "ConflictRetry"}

\* ------------------------------------------------------------- C35
\* The place in the handler stack of the Catch handler of the innermost try
\* of activation a, and the places of the CatchLabel handlers of its arms.
HasTry(a) ==
    \E k \in 1..Len(a.handler_stack) : a.handler_stack[k].handler_type = "Catch"

InnerCatch(a) ==
    Max({k \in 1..Len(a.handler_stack) :
            a.handler_stack[k].handler_type = "Catch"})

Arms(a) ==
    LET k == InnerCatch(a)
    IN  {i \in (k - a.handler_stack[k].arg)..(k - 1) : i >= 1}

\* C35: a raise inside a try with n except arms is matched against the code
\* lists of all the arms: when an arm lists the code, or lists nothing, the
\* raise goes on at the label of such an arm with the error value on top of
\* the value stack and the result More; when no arm does, the raise is not
\* taken by this try; and the unwinding does not panic.
C35_EveryArmIsMatched ==
    \A code \in Errors :
        (Running /\ Raises(vm, code) /\ HasTry(top(vm)))
        => LET a == top(vm)
               matching == {i \in Arms(a) :
                               ArmGuards(a, a.handler_stack[i], code)}
               out == Turn(vm)
               taken(arms) ==
                   /\ out.res = "More"
                   /\ Len(out.state.stack) = Len(vm.stack)
                   /\ top(out.state).pc
                         \in {a.handler_stack[i].arg : i \in arms}
           IN  /\ out.res # "panic"
               /\ matching # {}
                     => /\ taken(matching)
                        /\ top(out.state).valstack # <<>>
                        /\ peek_top(top(out.state)) = v_err(code)
               /\ matching = {} => ~taken(Arms(a))

\* ------------------------------------------------------------- C36
\* The handlers of activation a were pushed in the order of their depths,
\* and none records a depth above the present depth of the value stack.
HandlersInOrder(a) ==
    /\ \A k \in 1..Len(a.handler_stack) :
          a.handler_stack[k].valstack_pos <= Len(a.valstack)
    /\ \A k \in 1..(Len(a.handler_stack) - 1) :
          a.handler_stack[k].valstack_pos
             <= a.handler_stack[k + 1].valstack_pos

\* C36: in every activation of a task the handler stack is a LIFO of entries
\* whose recorded value-stack depths are in order and not above the present
\* depth of the value stack, and EndCatch, EndExcept and EndFinally find the
\* handler they expect on top: they do not panic.
C36_HandlerStackDepths ==
    /\ \A f \in 1..Len(vm.stack) : HandlersInOrder(vm.stack[f])
    /\ (Running /\ AtOp(vm, {"EndCatch", "EndExcept", "EndFinally"}))
       => Turn(vm).res = "continue"

\* ------------------------------------------------------------- C37
\* The opcode left an error value on the value stack and went on, as after
\* an ordinary result (no operand of the machine is an error value).
ErrorLeftAsResult ==
    /\ machine.res = "continue"
    /\ top(machine.state).valstack # <<>>
    /\ peek_top(top(machine.state)).t = "err"

\* C37: in a verb with the 'd' flag an arithmetic or indexing opcode whose
\* operands have the wrong type or are out of range raises the error
\* through push_error; it does not leave the error on the value stack as its
\* result.
C37_DebugVerbRaisesOperandErrors ==
    (/\ Executed({"Add", "Sub", "Mul", "Div", "Mod", "Exp", "UnaryMinus",
                  "Ref", "PushRef", "RangeRef", "RangeSet", "Length"})
     /\ machine.state.stack # <<>>
     /\ top(machine.state).debug)
    => ~ErrorLeftAsResult

\* ------------------------------------------------------------- C40
\* C40: in a verb without the 'd' flag an opcode that consumes operands
\* leaves the value stack one value deeper than it was below the operands,
\* on the error path as on the success path: the operands are replaced by
\* one value, the result or the error.
C40_ErrorPathKeepsDepth ==
    (/\ Executed({"Add", "Sub", "Mul", "Div", "Mod", "Exp", "Eq", "Ne",
                  "In", "UnaryMinus", "Ref", "IndexSet", "RangeRef",
                  "RangeSet"})
     /\ machine.res \in {"continue", "More"}
     /\ ~top(machine.state).debug)
    => Len(top(machine.state).valstack)
          = Len(machine.before) - Arity(machine.op) + 1

\* ------------------------------------------------------------- C38
\* The pages of a relation: the ones its PageSpace lists and the ones that
\* hold a live tuple of it; and the free bytes a page really has.
PagesOf(rel) ==
    PageSpace_pages(box.available_page_space[rel])
      \cup {handles[g].id[1] : g \in {h \in 1..Len(handles) :
                                        Live(h) /\ handles[h].rel = rel}}

FreeOf(pid) ==
    IF pid \in DOMAIN box.pool THEN available_content_bytes(box.pool[pid])
    ELSE 0

\* The sizes find_space asks find_room for: payload plus slot index entry.
RoomSizes == {s + slot_index_overhead : s \in Sizes}

SortedPaired(ps) ==
    /\ Len(ps.available) = Len(ps.block_ids)
    /\ \A i \in 1..(Len(ps.available) - 1) :
          ps.available[i] <= ps.available[i + 1]

BestFit(rel, n) ==
    LET fits == {p \in PagesOf(rel) : FreeOf(p) >= n}
    IN  \A found \in PageSpace_find_room(box.available_page_space[rel], n) :
           /\ (found = None) <=> (fits = {})
           /\ found # None =>
                 /\ found[1][1] \in fits
                 /\ \A p \in fits : FreeOf(found[1][1]) <= FreeOf(p)

\* C38: after every SlotBox operation the PageSpace of each relation is
\* sorted by free bytes with vectors of equal length, and find_room(n) gives
\* the page of the relation with the smallest free space >= n, None exactly
\* when no page of the relation has n free bytes.
C38_PageSpaceBestFit ==
    boxstate = "ready" =>
        \A rel \in DOMAIN box.available_page_space :
            /\ SortedPaired(box.available_page_space[rel])
            /\ \A n \in RoomSizes : BestFit(rel, n)

\* ------------------------------------------------------------- C39
\* The thread asks for the lock of a page while a guard of its own call on
\* that page keeps it from it: it waits for itself.
WaitsForItself(t) ==
    /\ StepOf(t) \in {"read", "write"}
    /\ t \in WaitsFor(t)

\* C39: no SlotBox call waits for a page lock that the call itself holds;
\* that includes update with a value of another length, which removes the
\* old slot and allocates a new one inside the call.
C39_NoCallWaitsForItself ==
    \A t \in Threads : ~WaitsForItself(t)

====
